---- MODULE Spec2Model ----
(***************************************************************************)
(* Receipt Field Reconciliation Engine of easyreceipts (frontend):         *)
(*   lib/receiptNormalizer.ts   normalizeReceiptResponse and its parsers   *)
(*   lib/receiptDraftStore.ts   the Local Override Store (localStorage)    *)
(*   lib/receiptCache.ts        the List Snapshot Cache                    *)
(*   pages/Review.tsx           fetchReceipt (loadForReview), handleSubmit *)
(*   pages/Receipts.tsx         fetchReceipts, applyLocalOverrides         *)
(*   lib/api.ts                 updateReceipt, normalizeReceipt            *)
(*                                                                         *)
(* JavaScript values are tagged records, so that values of different       *)
(* JavaScript types are always comparable:                                 *)
(*   undefined, null, NaN, string (a sequence of one-character strings),   *)
(*   number (fixed point, in units of 1/Scale), object (a function from    *)
(*   key names to values), array (a sequence of values).                   *)
(***************************************************************************)
EXTENDS Integers, Sequences, FiniteSets, TLC

\* ------------------------------------------------------------------------
\* JavaScript values
\* ------------------------------------------------------------------------
Scale == 10 * 10

Undef == [t |-> "undefined"]
Null == [t |-> "null"]
NaNv == [t |-> "NaN"]
Infinite(neg) == [t |-> "Infinity", neg |-> neg]
Str(s) == [t |-> "string", s |-> s]
Num(n) == [t |-> "number", n |-> n]
Whole(i) == [t |-> "number", n |-> i * Scale]
Obj(f) == [t |-> "object", o |-> f]
Arr(a) == [t |-> "array", a |-> a]

EmptyObj == Obj(<<>>)
EmptyStr == Str(<<>>)

IsStr(v) == v.t = "string"
\* typeof v === 'number' && !isNaN(v)
IsNum(v) == v.t \in {"number", "Infinity"}
IsObj(v) == v.t = "object"
IsArr(v) == v.t = "array"

\* typeof v === 'object' && v is not null  (arrays are objects)
IsObjectLike(v) == v.t \in {"object", "array"}

\* JavaScript truthiness: if (v), !v, v || d
Truthy(v) ==
  CASE v.t = "undefined" -> FALSE
    [] v.t = "null" -> FALSE
    [] v.t = "NaN" -> FALSE
    [] v.t = "string" -> Len(v.s) > 0
    [] v.t = "number" -> v.n # 0
    [] OTHER -> TRUE

\* a || b
OrElse(a, b) == IF Truthy(a) THEN a ELSE b

\* a ?? b
Coalesce(a, b) == IF a = Undef \/ a = Null THEN b ELSE a

\* key in obj: an array has none of the names probed here
HasKey(v, k) == IsObj(v) /\ k \in DOMAIN v.o

\* obj[key]
Get(v, k) == IF HasKey(v, k) THEN v.o[k] ELSE Undef

\* { ...a, ...b } on two key-value maps: the later spread wins
Spread(a, b) == b @@ a

\* ------------------------------------------------------------------------
\* Strings
\* ------------------------------------------------------------------------
DigitChars == <<"0", "1", "2", "3", "4", "5", "6", "7", "8", "9">>
Digits == {DigitChars[i] : i \in 1..10}
WhiteSpace == {" "}

IsDigit(c) == c \in Digits
DigitVal(c) == (CHOOSE i \in 1..10 : DigitChars[i] = c) - 1

AllDigits(s) == \A i \in 1..Len(s) : IsDigit(s[i])

\* number of leading characters of s that satisfy the class cls
RECURSIVE SpanLen(_, _)
SpanLen(s, cls) ==
  IF Len(s) > 0 /\ Head(s) \in cls THEN 1 + SpanLen(Tail(s), cls) ELSE 0

Drop(s, n) == SubSeq(s, n + 1, Len(s))
Take(s, n) == SubSeq(s, 1, n)

RECURSIVE Reverse(_)
Reverse(s) == IF Len(s) = 0 THEN <<>> ELSE Append(Reverse(Tail(s)), Head(s))

TrimStart(s) == Drop(s, SpanLen(s, WhiteSpace))
Trim(s) == Reverse(TrimStart(Reverse(TrimStart(s))))

\* value of a sequence of decimal digits
RECURSIVE DigitsVal(_)
DigitsVal(s) ==
  IF Len(s) = 0 THEN 0
  ELSE 10 * DigitsVal(Take(s, Len(s) - 1)) + DigitVal(s[Len(s)])

\* decimal digits of a natural number
RECURSIVE NatStr(_)
NatStr(n) ==
  IF n < 10 THEN <<DigitChars[n + 1]>>
  ELSE Append(NatStr(n \div 10), DigitChars[(n % 10) + 1])

\* s.replace(from, to): the first occurrence only
RECURSIVE ReplaceFirst(_, _, _)
ReplaceFirst(s, from, to) ==
  IF Len(s) = 0 THEN <<>>
  ELSE IF Head(s) = from THEN <<to>> \o Tail(s)
  ELSE <<Head(s)>> \o ReplaceFirst(Tail(s), from, to)

\* padStart that pads nothing
PadStartNone(s) == s

\* s.padStart(2, '0')
PadStart2(s) == IF Len(s) < 2 THEN <<"0">> \o s ELSE s

\* the fraction digits d1 d2 ... as a count of 1/Scale units (two places kept)
FracVal(s) ==
  IF Len(s) = 0 THEN 0
  ELSE IF Len(s) = 1 THEN 10 * DigitVal(s[1])
  ELSE 10 * DigitVal(s[1]) + DigitVal(s[2])

InfinityText == <<"I", "n", "f", "i", "n", "i", "t", "y">>

\* parseFloat(s): leading white space, optional sign, then the text Infinity
\* or digits with an optional fraction; NaN when neither is found.  Exponents
\* are not read: no string of the model holds one.
parseFloat(s) ==
  LET t == TrimStart(s)
      neg == Len(t) > 0 /\ Head(t) = "-"
      u == IF Len(t) > 0 /\ Head(t) \in {"-", "+"} THEN Tail(t) ELSE t
      ni == SpanLen(u, Digits)
      r == Drop(u, ni)
      hasDot == Len(r) > 0 /\ Head(r) = "."
      nf == IF hasDot THEN SpanLen(Tail(r), Digits) ELSE 0
      mag == DigitsVal(Take(u, ni)) * Scale
             + (IF nf > 0 THEN FracVal(Take(Tail(r), nf)) ELSE 0)
  IN  IF Len(u) >= 8 /\ Take(u, 8) = InfinityText THEN Infinite(neg)
      ELSE IF ni = 0 /\ nf = 0 THEN NaNv
      ELSE Num(IF neg THEN 0 - mag ELSE mag)

\* String(n) for a number
NumToString(v) ==
  IF v.t = "Infinity" THEN (IF v.neg THEN <<"-">> ELSE <<>>) \o InfinityText ELSE
  LET neg == v.n < 0
      m == IF neg THEN 0 - v.n ELSE v.n
      ip == m \div Scale
      fp == m % Scale
      fs == IF fp = 0 THEN <<>>
            ELSE IF fp % 10 = 0 THEN <<".", DigitChars[(fp \div 10) + 1]>>
            ELSE <<".", DigitChars[(fp \div 10) + 1], DigitChars[(fp % 10) + 1]>>
  IN  (IF neg THEN <<"-">> ELSE <<>>) \o NatStr(ip) \o fs

\* ------------------------------------------------------------------------
\* receiptNormalizer.ts
\* ------------------------------------------------------------------------

\* one dotted path, already split into its keys
RECURSIVE WalkPath(_, _)
WalkPath(value, keys) ==
  IF Len(keys) = 0 THEN value
  ELSE IF HasKey(value, Head(keys)) THEN WalkPath(value.o[Head(keys)], Tail(keys))
  ELSE Undef

\* getNestedValue(obj, ...paths): the first path whose value is neither
\* undefined nor null
RECURSIVE getNestedValue(_, _)
getNestedValue(obj, paths) ==
  IF Len(paths) = 0 THEN Undef
  ELSE LET value == WalkPath(obj, Head(paths))
       IN  IF value # Undef /\ value # Null THEN value
           ELSE getNestedValue(obj, Tail(paths))

\* parseNumber giving 0 for a missing value
parseNumberOrZero(value) ==
  IF value = Null \/ value = Undef THEN Whole(0)
  ELSE IF value.t = "NaN" THEN Null
  ELSE IF IsNum(value) THEN value
  ELSE IF IsStr(value) THEN
    LET num == parseFloat(ReplaceFirst(value.s, ",", "."))
    IN  IF num = NaNv THEN Null ELSE num
  ELSE Null

parseNumber(value) ==
  IF value = Null \/ value = Undef THEN Null
  ELSE IF value.t = "NaN" THEN Null
  ELSE IF IsNum(value) THEN value
  ELSE IF IsStr(value) THEN
    LET num == parseFloat(ReplaceFirst(value.s, ",", "."))
    IN  IF num = NaNv THEN Null ELSE num
  ELSE Null

\* /^(\d{1,2})SEP(\d{1,2})SEP(\d{4})$/ : <<day, month, year>> or <<>>
MatchDMY(s, sep) ==
  LET n1 == SpanLen(s, Digits)
      r1 == Drop(s, n1)
      n2 == IF Len(r1) > 0 THEN SpanLen(Tail(r1), Digits) ELSE 0
      r2 == IF Len(r1) > 0 THEN Drop(Tail(r1), n2) ELSE <<>>
      y == IF Len(r2) > 0 THEN Tail(r2) ELSE <<>>
  IN  IF /\ n1 \in {1, 2}
         /\ Len(r1) > 0 /\ Head(r1) = sep
         /\ n2 \in {1, 2}
         /\ Len(r2) > 0 /\ Head(r2) = sep
         /\ Len(y) = 4 /\ AllDigits(y)
      THEN <<Take(s, n1), Take(Tail(r1), n2), y>>
      ELSE <<>>

\* /^\d{4}-\d{2}-\d{2}$/
IsYMD(s) ==
  /\ Len(s) = 10
  /\ AllDigits(SubSeq(s, 1, 4)) /\ s[5] = "-"
  /\ AllDigits(SubSeq(s, 6, 7)) /\ s[8] = "-"
  /\ AllDigits(SubSeq(s, 9, 10))

\* the days of a month of the Gregorian calendar
DaysInMonth(y, m) ==
  IF m \in {4, 6, 9, 11} THEN 30
  ELSE IF m # 2 THEN 31
  ELSE IF y % 4 = 0 /\ (y % 100 # 0 \/ y % 400 = 0) THEN 29
  ELSE 28

\* s is YYYY-MM-DD and names a day of the calendar
IsCalendarDate(s) ==
  /\ IsYMD(s)
  /\ LET y == DigitsVal(SubSeq(s, 1, 4))
         m == DigitsVal(SubSeq(s, 6, 7))
         d == DigitsVal(SubSeq(s, 9, 10))
     IN  m \in 1..12 /\ d \in 1..DaysInMonth(y, m)

\* new Date(value).toISOString().split('T')[0] for the one further shape the
\* model's payloads use, an ISO date-time "YYYY-MM-DDT..." in UTC of a day of
\* the calendar; a string without a digit is not a date for the Date
\* constructor.  What the constructor makes of other strings is left to the
\* engine; the model holds none.
GenericDate(s) ==
  IF Len(s) > 10 /\ IsCalendarDate(Take(s, 10)) /\ s[11] = "T" /\ s[Len(s)] = "Z"
  THEN Take(s, 10) ELSE <<>>

\* formatDate returning a string of no known form as it is
formatDateUnchecked(value) ==
  IF ~Truthy(value) THEN EmptyStr
  ELSE IF IsStr(value) THEN
    LET dash == MatchDMY(value.s, "-")
        slash == MatchDMY(value.s, "/")
    IN  IF dash # <<>> THEN
          Str(dash[3] \o <<"-">> \o PadStart2(dash[2]) \o <<"-">> \o PadStart2(dash[1]))
        ELSE IF slash # <<>> THEN
          Str(slash[3] \o <<"-">> \o PadStart2(slash[2]) \o <<"-">> \o PadStart2(slash[1]))
        ELSE value
  ELSE EmptyStr

formatDate(value) ==
  IF ~Truthy(value) THEN EmptyStr
  ELSE IF IsStr(value) THEN
    LET dash == MatchDMY(value.s, "-")
        slash == MatchDMY(value.s, "/")
    IN  IF dash # <<>> THEN
          Str(dash[3] \o <<"-">> \o PadStart2(dash[2]) \o <<"-">> \o PadStart2(dash[1]))
        ELSE IF slash # <<>> THEN
          Str(slash[3] \o <<"-">> \o PadStart2(slash[2]) \o <<"-">> \o PadStart2(slash[1]))
        ELSE IF IsYMD(value.s) THEN value
        ELSE Str(GenericDate(value.s))
  ELSE EmptyStr

\* the first run of digits, without a fraction
RECURSIVE FirstIntegerToken(_)
FirstIntegerToken(s) ==
  IF Len(s) = 0 THEN <<>>
  ELSE IF IsDigit(Head(s)) THEN Take(s, SpanLen(s, Digits))
  ELSE FirstIntegerToken(Tail(s))

\* value.match(/(\d+(?:\.\d+)?)\s*%?/): the first numeric token, or <<>>
RECURSIVE FirstNumericToken(_)
FirstNumericToken(s) ==
  IF Len(s) = 0 THEN <<>>
  ELSE IF IsDigit(Head(s)) THEN
    LET ni == SpanLen(s, Digits)
        r == Drop(s, ni)
        nf == IF Len(r) > 0 /\ Head(r) = "." THEN SpanLen(Tail(r), Digits) ELSE 0
    IN  IF nf > 0 THEN Take(s, ni + 1 + nf) ELSE Take(s, ni)
  ELSE FirstNumericToken(Tail(s))

\* parseVatRate returning the first numeric token of free text as found
parseVatRateUnbucketed(value) ==
  IF ~Truthy(value) THEN EmptyStr
  ELSE IF IsNum(value) THEN Str(NumToString(value))
  ELSE IF IsStr(value) THEN
    IF Len(Trim(value.s)) > 0 /\ AllDigits(Trim(value.s)) THEN Str(Trim(value.s))
    ELSE LET match == FirstNumericToken(value.s)
         IN  IF match # <<>> THEN Str(match) ELSE EmptyStr
  ELSE EmptyStr

parseVatRate(value) ==
  IF ~Truthy(value) THEN EmptyStr
  ELSE IF IsNum(value) THEN Str(NumToString(value))
  ELSE IF IsStr(value) THEN
    IF Len(Trim(value.s)) > 0 /\ AllDigits(Trim(value.s)) THEN Str(Trim(value.s))
    ELSE LET match == FirstNumericToken(value.s)
         IN  IF match # <<>> THEN
               LET rate == parseFloat(match).n
               IN  IF rate <= 2 * Scale THEN Str(<<"0">>)
                   ELSE IF 2 * rate <= 9 * Scale THEN Str(<<"4">>)
                   ELSE IF rate <= 7 * Scale THEN Str(<<"5">>)
                   ELSE IF rate <= 15 * Scale THEN Str(<<"1", "0">>)
                   ELSE Str(<<"2", "2">>)
             ELSE EmptyStr
  ELSE EmptyStr

\* paths of one key each
Keys(names) == [i \in 1..Len(names) |-> <<names[i]>>]

IdPaths == Keys(<<"id", "receiptId", "_id">>)
StatusPaths == Keys(<<"status", "receiptStatus">>)
ImagePaths ==
  << <<"artifacts", "processedUrl">>, <<"artifacts", "processed_url">>,
     <<"artifacts", "originalUrl">>, <<"artifacts", "original_url">>,
     <<"imageUrl">>, <<"image_url">>, <<"url">> >>
OcrSummaryPaths == << <<"ocr", "summary", "fields">> >>
ExtractedPaths ==
  << <<"extracted">>, <<"ocr", "fields">>, <<"ocr">>, <<"ocrData">>,
     <<"ocrResult">>, <<"fields">>, <<"data">>, <<"artifacts", "ocr">>,
     <<"artifacts", "ocrData">>, <<"artifacts", "extracted">> >>
ConfirmedPaths == Keys(<<"confirmed", "final", "userConfirmed", "user_confirmed">>)
DraftPaths ==
  Keys(<<"draft", "userDraft", "user_draft", "edited", "receipt",
         "receiptData", "receipt_data">>)

\* the alias table: the canonical field name first, then its aliases
DateNames ==
  <<"date", "date_raw", "receiptDate", "receipt_date", "transactionDate", "purchaseDate">>
TotalNames ==
  <<"total", "total_raw", "total_amount", "amount", "totalAmount", "grandTotal">>
PayeeNames == <<"payee", "vendor", "merchant", "store", "storeName">>
VatNames == <<"vat", "vat_amount", "tax", "tax_raw", "vatAmount", "taxAmount">>
VatRateNames == <<"vatRate", "vat_rate", "vat_rate_raw", "taxRate", "tax_rate">>
CategoryNames == <<"category", "type", "expenseType", "expenseCategory">>
NotesNames == <<"notes", "description", "memo", "comment">>

\* value !== undefined && value !== null && value !== ''
NonEmpty(value) == value # Undef /\ value # Null /\ value # EmptyStr

\* the loop "for (const name of allNames)" over one section
RECURSIVE FirstNonEmpty(_, _)
FirstNonEmpty(section, allNames) ==
  IF Len(allNames) = 0 THEN Undef
  ELSE LET value == getNestedValue(section, <<<<Head(allNames)>>>>)
       IN  IF NonEmpty(value) THEN value
           ELSE FirstNonEmpty(section, Tail(allNames))

\* the sections of a payload, as normalizeReceiptResponse locates them
confirmedFieldsOf(obj) == getNestedValue(obj, ConfirmedPaths)
draftFieldsOf(obj) == getNestedValue(obj, DraftPaths)
extractedFieldsOf(obj) ==
  OrElse(getNestedValue(obj, OcrSummaryPaths),
         OrElse(getNestedValue(obj, ExtractedPaths), obj))

\* getField probing the OCR/extracted section before the root
getFieldExtractedFirst(obj, allNames) ==
  LET confirmedFields == confirmedFieldsOf(obj)
      draftFields == draftFieldsOf(obj)
      extractedFields == extractedFieldsOf(obj)
      c == IF Truthy(confirmedFields) THEN FirstNonEmpty(confirmedFields, allNames) ELSE Undef
      d == IF Truthy(draftFields) THEN FirstNonEmpty(draftFields, allNames) ELSE Undef
      r == FirstNonEmpty(obj, allNames)
      e == IF Truthy(extractedFields) /\ extractedFields # obj
           THEN FirstNonEmpty(extractedFields, allNames) ELSE Undef
  IN  IF c # Undef THEN c
      ELSE IF d # Undef THEN d
      ELSE IF e # Undef THEN e
      ELSE r

\* getField(fieldName, altNames): confirmed, then draft, then root, then
\* extracted
getField(obj, allNames) ==
  LET confirmedFields == confirmedFieldsOf(obj)
      draftFields == draftFieldsOf(obj)
      extractedFields == extractedFieldsOf(obj)
      c == IF Truthy(confirmedFields) THEN FirstNonEmpty(confirmedFields, allNames) ELSE Undef
      d == IF Truthy(draftFields) THEN FirstNonEmpty(draftFields, allNames) ELSE Undef
      r == FirstNonEmpty(obj, allNames)
      e == IF Truthy(extractedFields) /\ extractedFields # obj
           THEN FirstNonEmpty(extractedFields, allNames) ELSE Undef
  IN  IF c # Undef THEN c
      ELSE IF d # Undef THEN d
      ELSE IF r # Undef THEN r
      ELSE e

Threw == [threw |-> TRUE]
Returned(rec) == [threw |-> FALSE, rec |-> rec]

\* normalizeReceiptResponse(response): the canonical record, or the throw of
\* Error('Invalid receipt response')
normalizeReceiptResponse(response) ==
  LET data == IF IsArr(response) /\ Len(response.a) > 0 THEN response.a[1] ELSE response
  IN  IF ~Truthy(data) \/ ~IsObjectLike(data) THEN Threw
      ELSE LET obj == data IN
        Returned([
          id |-> OrElse(getNestedValue(obj, IdPaths), EmptyStr),
          status |-> OrElse(getNestedValue(obj, StatusPaths), Str(<<"P", "E", "N", "D", "I", "N", "G">>)),
          imageUrl |-> OrElse(getNestedValue(obj, ImagePaths), Undef),
          date |-> formatDate(getField(obj, DateNames)),
          total |-> parseNumber(getField(obj, TotalNames)),
          payee |-> OrElse(getField(obj, PayeeNames), EmptyStr),
          vat |-> parseNumber(getField(obj, VatNames)),
          vatRate |-> OrElse(parseVatRate(getField(obj, VatRateNames)), Str(<<"2", "2">>)),
          category |-> OrElse(getField(obj, CategoryNames), Str(<<"G", "e", "n", "e", "r", "a", "l">>)),
          notes |-> OrElse(getField(obj, NotesNames), EmptyStr)])

\* ------------------------------------------------------------------------
\* State
\* ------------------------------------------------------------------------
VARIABLES
  raw,          \* the payload handed to normalizeReceiptResponse
  normOut,      \* the last call of normalizeReceiptResponse: input and outcome
  parsed,       \* the last call of a value parser: input and result
  sent,         \* the last call of updateReceipt: payload and request body
  storage,      \* localStorage: the item stored under STORAGE_KEY
  storageFault, \* whether localStorage.getItem / setItem throw
  lastOp,       \* the last call made to the override store and its outcome
  receiptCache, \* receiptCache.ts: receiptId -> list row
  backend,      \* the record the backend keeps for each receipt
  reviewId,     \* the receipt the Review page is mounted for, or "none"
  loading,      \* Review: loading
  loads,        \* Review: the fetchReceipt calls awaiting getReceipt
  shown,        \* Review: the last record set by fetchReceipt, and its sources
  formData,     \* Review: formData
  save,         \* Review: the last handleSubmit call and its stage
  cacheOp,      \* the last call made to receiptCache.ts and the cache before it
  race,         \* Review: the fetchReceipt calls of the mounted page and the
                \* order in which getReceipt resolved
  proc,         \* Processing: status, pollCount, progress, the pending timer or
                \* check, and the status checks made since polling began
  listed,       \* Receipts: the last fetchReceipts call, what getReceipts
                \* returned and the rows set
  ynab,         \* Export: the page, the YNAB export store and YNAB itself
  auth,         \* AuthCallback: the saved state, the session, the last callback
  cats          \* useCategories: the list, the calls in flight, the backend

normVars == <<raw, normOut, parsed, sent>>
storeVars == <<storage, storageFault, lastOp>>
pageVars == <<reviewId, loading, loads, shown, formData, save>>
appVars == <<receiptCache, backend, pageVars>>
farVars == <<proc, listed, ynab, auth, cats>>
otherThanProc == <<cacheOp, race, listed, ynab, auth, cats>>
otherThanListed == <<cacheOp, race, proc, ynab, auth, cats>>
otherThanYnab == <<cacheOp, race, proc, listed, auth, cats>>
otherThanAuth == <<cacheOp, race, proc, listed, ynab, cats>>
otherThanCats == <<cacheOp, race, proc, listed, ynab, auth>>
otherVars == <<cacheOp, race, farVars>>
vars == <<normVars, storeVars, appVars, otherVars>>

\* strings used as literals by the code and by the payloads of the model
S1(a) == Str(<<a>>)
PENDING == Str(<<"P", "E", "N", "D", "I", "N", "G">>)
DRAFT == Str(<<"D", "R", "A", "F", "T">>)
CONFIRMED == Str(<<"C", "O", "N", "F", "I", "R", "M", "E", "D">>)
Bucket0 == Str(<<"0">>)
Bucket4 == Str(<<"4">>)
Bucket5 == Str(<<"5">>)
Bucket10 == Str(<<"1", "0">>)
Bucket22 == Str(<<"2", "2">>)
VAT_RATES == {Bucket0, Bucket4, Bucket5, Bucket10, Bucket22}

\* ------------------------------------------------------------------------
\* Normalizer inputs: payloads are built entry by entry
\* ------------------------------------------------------------------------
MaxEntries == 2

\* where an entry goes: the root object or a wrapper key of it
Places == {"root", "confirmed", "draft", "extracted"}

\* the fields a backend may store: a name of a field and a raw value
Entries ==
  { <<"total", Whole(48)>>, <<"total", Str(<<"1", "2", ",", "5", "0">>)>>,
    <<"total", EmptyStr>>, <<"total_amount", Whole(50)>>,
    <<"payee", S1("A")>>, <<"payee", EmptyStr>>, <<"vendor", S1("B")>>,
    <<"vatRate", Whole(7)>>, <<"vatRate", Str(<<"3", "%">>)>>, <<"vatRate", S1("x")>>,
    <<"vat_rate", Str(<<"2", "1">>)>>, <<"vat_rate", Num(250)>>,
    <<"vat_rate", Str(<<"A", " ", "2", "2", ".", "0", "0", "%">>)>>,
    <<"date", Str(<<"1", "4", "-", "1", "1", "-", "2", "0", "2", "5">>)>> }

\* inputs that are not plain objects
NonObjectInputs == {Null, Undef, S1("A"), Whole(5), Whole(0), EmptyStr, Arr(<<>>)}

\* the number of field entries of a payload object
RECURSIVE EntryCount(_)
EntryCount(v) ==
  IF ~IsObj(v) THEN 0
  ELSE LET ks == DOMAIN v.o
           RECURSIVE Sum(_)
           Sum(K) == IF K = {} THEN 0
                     ELSE LET k == CHOOSE x \in K : TRUE
                          IN  (IF IsObj(v.o[k]) THEN EntryCount(v.o[k]) ELSE 1) + Sum(K \ {k})
       IN  Sum(ks)

\* the payload with one more entry at a place
WithEntry(v, place, key, val) ==
  IF place = "root" THEN Obj(Spread(v.o, (key :> val)))
  ELSE LET sec == IF HasKey(v, place) THEN v.o[place].o ELSE <<>>
       IN  Obj(Spread(v.o, (place :> Obj(Spread(sec, (key :> val))))))

NoCall == [called |-> FALSE]
Call(in, out) == [called |-> TRUE, in |-> in, out |-> out]

\* start over from the empty object or from an input that is not an object
NormFresh ==
  /\ \E v \in NonObjectInputs \cup {EmptyObj} : raw' = v
  /\ normOut' = NoCall
  /\ UNCHANGED <<parsed, sent, storeVars, appVars, otherVars>>

\* the backend adds one field to the payload
NormPut ==
  /\ IsObj(raw)
  /\ EntryCount(raw) < MaxEntries
  /\ \E place \in Places, e \in Entries :
       /\ ~(place # "root" /\ HasKey(raw, place) /\ HasKey(raw.o[place], e[1]))
       /\ ~(place = "root" /\ HasKey(raw, e[1]))
       /\ raw' = WithEntry(raw, place, e[1], e[2])
  /\ normOut' = NoCall
  /\ UNCHANGED <<parsed, sent, storeVars, appVars, otherVars>>

\* further fields a backend may store: identity, status, image, text fields,
\* and values of a type or form their parser does not read
MoreEntries ==
  { <<"id", EmptyStr>>, <<"id", S1("x")>>, <<"receiptId", Str(<<"r", "1">>)>>,
    <<"status", EmptyStr>>, <<"status", CONFIRMED>>, <<"receiptStatus", DRAFT>>,
    <<"imageUrl", EmptyStr>>, <<"url", S1("u")>>,
    <<"payee", Null>>, <<"payee", S1("A")>>, <<"vendor", S1("B")>>,
    <<"category", S1("c")>>, <<"type", S1("t")>>, <<"notes", S1("n")>>,
    <<"total", S1("x")>>, <<"total", Arr(<<>>)>>, <<"total_amount", Whole(50)>>,
    <<"vat", S1("x")>>, <<"vatRate", Arr(<<>>)>>,
    <<"date", Whole(5)>>, <<"date", Str(<<"n", "o", "t", "-", "a", "-", "d", "a", "t", "e">>)>> }

\* the backend adds one of the further fields, at top level or confirmed
NormPutMore ==
  /\ IsObj(raw)
  /\ EntryCount(raw) < MaxEntries
  /\ \E place \in {"root", "confirmed"}, e \in MoreEntries :
       /\ ~(place # "root" /\ HasKey(raw, place) /\ HasKey(raw.o[place], e[1]))
       /\ ~(place = "root" /\ HasKey(raw, e[1]))
       /\ raw' = WithEntry(raw, place, e[1], e[2])
  /\ normOut' = NoCall
  /\ UNCHANGED <<parsed, sent, storeVars, appVars, otherVars>>

\* the endpoint wraps the record in an array, alone or followed by another
NormWrap ==
  /\ ~IsArr(raw)
  /\ \E rest \in {<<>>, <<Obj([payee |-> S1("B")])>>} : raw' = Arr(<<raw>> \o rest)
  /\ normOut' = NoCall
  /\ UNCHANGED <<parsed, sent, storeVars, appVars, otherVars>>

\* normalizeReceiptResponse(raw)
Normalize ==
  /\ normOut = NoCall
  /\ normOut' = Call(raw, normalizeReceiptResponse(raw))
  /\ UNCHANGED <<raw, parsed, sent, storeVars, appVars, otherVars>>

\* ------------------------------------------------------------------------
\* The value parsers on raw values of every type and form
\* ------------------------------------------------------------------------

\* the strings a \o b \o c
Joined(as, bs, cs) == {Str(a \o b \o c) : a \in as, b \in bs, c \in cs}

\* values that are not strings
NonStrings ==
  { Undef, Null, NaNv, Whole(0), Whole(5), Num(1250), Num(0 - 300), Infinite(FALSE),
    EmptyObj, Arr(<<>>), Arr(<<Whole(5)>>) }

DayTexts == {<<"1">>, <<"1", "4">>, <<"3", "1">>, <<"9", "9">>}
MonthTexts == {<<"2">>, <<"0", "2">>, <<"1", "1">>, <<"1", "3">>}
YearText == <<"2", "0", "2", "5">>

\* raw dates: day, month, year with either separator, year-month-day forms,
\* an ISO date-time, text without a digit, the empty string
DateInputs ==
  UNION {Joined({d \o <<sep>>}, {m \o <<sep>>}, {YearText}) :
           d \in DayTexts, m \in MonthTexts, sep \in {"-", "/"}}
  \cup Joined({YearText \o <<"-">>}, {<<"1", "1">>, <<"0", "2">>, <<"1", "3">>},
             {<<"-", "1", "4">>, <<"-", "3", "1">>, <<"-", "4", "5">>})
  \cup { Str(<<"2", "0", "2", "5", "-", "1", "1", "-", "1", "4", "T", "1", "0", ":", "0", "0", "Z">>),
         Str(<<"n", "o", "t", "-", "a", "-", "d", "a", "t", "e">>), EmptyStr }
  \cup NonStrings

\* raw amounts: sign, integer digits, comma or period, fraction digits, and
\* text around them
AmountInputs ==
  UNION {Joined({sign \o int}, {<<>>, <<",">>, <<".">>}, {<<>>, <<"5">>, <<"5", "0">>}) :
           sign \in {<<>>, <<"-">>}, int \in {<<>>, <<"0">>, <<"1", "2">>}}
  \cup { Str(<<"a", "b", "c">>), Str(<<"1", "2", "a", "b", "c">>),
         Str(<<" ", "1", "2", ",", "5", "0">>), Str(InfinityText),
         Str(<<"-">> \o InfinityText) }
  \cup NonStrings

RateTokens ==
  { <<"0">>, <<"2">>, <<"2", ".", "5">>, <<"3">>, <<"4", ".", "5">>, <<"4", ".", "5", "1">>,
    <<"7">>, <<"7", ".", "0", "1">>, <<"1", "5">>, <<"1", "5", ".", "0", "1">>,
    <<"2", "2">>, <<"1", "0", "0">> }

\* raw rates: a numeric token alone, after text, before a percent sign, and
\* text without a numeric token
RateInputs ==
  Joined({<<>>, <<"A", " ">>, <<"x">>}, RateTokens,
         {<<>>, <<"%">>, <<" ", "%">>, <<".", "0", "0", "%">>})
  \cup { Str(<<"I", "V", "A">>), Str(<<"%">>), Str(<<" ", "2", "2", " ">>), EmptyStr }
  \cup NonStrings

\* the record normalizeReceiptResponse returns for a payload holding the
\* value under one field
RecordOf(field, v) == normalizeReceiptResponse(Obj((field :> v))).rec

Parsed(fn, in, out, rec) ==
  [called |-> TRUE, fn |-> fn, in |-> in, out |-> out, rec |-> rec]

\* formatDate(value)
ParseDate ==
  /\ \E v \in DateInputs :
       parsed' = Parsed("formatDate", v, formatDate(v), RecordOf("date", v))
  /\ UNCHANGED <<raw, normOut, sent, storeVars, appVars, otherVars>>

\* parseNumber(value)
ParseAmount ==
  /\ \E v \in AmountInputs :
       parsed' = Parsed("parseNumber", v, parseNumber(v), RecordOf("total", v))
  /\ UNCHANGED <<raw, normOut, sent, storeVars, appVars, otherVars>>

\* parseVatRate(value)
ParseRate ==
  /\ \E v \in RateInputs :
       parsed' = Parsed("parseVatRate", v, parseVatRate(v), RecordOf("vatRate", v))
  /\ UNCHANGED <<raw, normOut, sent, storeVars, appVars, otherVars>>

NormInit ==
  /\ raw = EmptyObj
  /\ normOut = NoCall
  /\ parsed = NoCall
  /\ sent = NoCall

\* ------------------------------------------------------------------------
\* receiptDraftStore.ts: the Local Override Store
\* ------------------------------------------------------------------------
ReceiptIds == {"r1", "r2"}

\* the item under STORAGE_KEY: absent, the empty string, text that is not
\* JSON, or the text of a JSON value (kept as the value it parses to)
Missing == [k |-> "missing"]
EmptyText == [k |-> "empty"]
Invalid == [k |-> "invalid"]
Json(v) == [k |-> "json", v |-> v]

NoFault == [read |-> FALSE, write |-> FALSE]

\* an exception leaving a block, or its value
Thrown == [threw |-> TRUE]
Ok(v) == [threw |-> FALSE, v |-> v]

\* JSON.stringify followed by JSON.parse: a key whose value is undefined is
\* dropped, NaN and Infinity become null, an undefined array element becomes
\* null
RECURSIVE Jsonify(_)
Jsonify(v) ==
  IF IsObj(v) THEN
    LET keep == {k \in DOMAIN v.o : v.o[k] # Undef}
    IN  Obj([k \in keep |-> Jsonify(v.o[k])])
  ELSE IF IsArr(v) THEN
    Arr([i \in 1..Len(v.a) |-> IF v.a[i] = Undef THEN Null ELSE Jsonify(v.a[i])])
  ELSE IF v = NaNv \/ v.t = "Infinity" THEN Null
  ELSE v

\* the body of readAll's try block
readAllTry(st, fault) ==
  IF fault.read THEN Thrown
  ELSE IF st.k \in {"missing", "empty"} THEN Ok(EmptyObj)
  ELSE IF st.k = "invalid" THEN Thrown
  ELSE IF ~Truthy(st.v) \/ ~IsObjectLike(st.v) THEN Ok(EmptyObj)
  ELSE Ok(st.v)

\* readAll without its catch
readAllUncaught(st, fault) == readAllTry(st, fault)

\* readAll(): catch { return {} }
readAll(st, fault) ==
  LET r == readAllTry(st, fault)
  IN  IF r.threw THEN Ok(EmptyObj) ELSE r

\* writeAll(data): the new stored item; a throw of setItem is swallowed
writeAll(st, fault, data) ==
  IF fault.write THEN Ok(st) ELSE Ok(Json(Jsonify(data)))

\* the fields a DraftOverride keeps
OverrideFields == {"status", "payee", "date", "total", "vat", "vatRate", "category", "notes"}

\* getDraftOverride(receiptId): the override, or undefined
getDraftOverride(st, fault, receiptId) ==
  LET all == readAll(st, fault)
  IN  IF all.threw THEN Thrown ELSE Ok(Get(all.v, receiptId))

\* setDraftOverride merging the payload into the entry already stored
setDraftOverrideMerging(st, fault, receiptId, payload) ==
  LET all == readAll(st, fault)
      old == Get(all.v, receiptId)
      entry == Obj([f \in OverrideFields |->
                 IF HasKey(payload, f) /\ Get(payload, f) # Undef THEN Get(payload, f)
                 ELSE Get(old, f)])
  IN  IF all.threw THEN Thrown
      ELSE IF IsObj(all.v)
        THEN writeAll(st, fault, Obj(Spread(all.v.o, (receiptId :> entry))))
        ELSE writeAll(st, fault, all.v)

\* setDraftOverride(receiptId, payload): the stored item afterwards
setDraftOverride(st, fault, receiptId, payload) ==
  LET all == readAll(st, fault)
      entry == Obj([f \in OverrideFields |-> Get(payload, f)])
  IN  IF all.threw THEN Thrown
      ELSE IF IsObj(all.v)
        THEN writeAll(st, fault, Obj(Spread(all.v.o, (receiptId :> entry))))
        ELSE writeAll(st, fault, all.v)

\* clearDraftOverride removing every entry
clearDraftOverrideAll(st, fault, receiptId) ==
  LET all == readAll(st, fault)
  IN  IF all.threw THEN Thrown
      ELSE IF HasKey(all.v, receiptId) THEN writeAll(st, fault, EmptyObj)
      ELSE Ok(st)

\* clearDraftOverride(receiptId): the stored item afterwards
clearDraftOverride(st, fault, receiptId) ==
  LET all == readAll(st, fault)
  IN  IF all.threw THEN Thrown
      ELSE IF HasKey(all.v, receiptId)
        THEN writeAll(st, fault,
               Obj([k \in (DOMAIN all.v.o) \ {receiptId} |-> all.v.o[k]]))
        ELSE Ok(st)

\* the stored item after a call, whether or not the call raised
After(st, r) == IF r.threw THEN st ELSE r.v

\* payloads handed to setDraftOverride by the model
Patches ==
  { Obj([total |-> Whole(55)]),
    Obj([total |-> Whole(50), payee |-> S1("A")]),
    Obj([payee |-> S1("B"), notes |-> EmptyStr, vat |-> Undef]),
    Obj([status |-> DRAFT, payee |-> S1("A"), date |-> Str(<<"2", "0", "2", "5", "-", "1", "1", "-", "1", "4">>),
         total |-> Num(1250), vat |-> Whole(2), vatRate |-> Bucket22,
         categoryId |-> Null, notes |-> S1("n")]),
    EmptyObj }

NoOp == [op |-> "none"]

\* a caller stores an override
StoreSet ==
  /\ \E id \in ReceiptIds, patch \in Patches :
       LET r == setDraftOverride(storage, storageFault, id, patch)
       IN  /\ storage' = After(storage, r)
           /\ lastOp' = [op |-> "set", id |-> id, patch |-> patch, raised |-> r.threw,
                         before |-> storage, fault |-> storageFault, prev |-> lastOp.op,
                         prevId |-> IF lastOp.op = "none" THEN id ELSE lastOp.id,
                         prevPatch |-> IF lastOp.op = "set" THEN lastOp.patch ELSE EmptyObj]
  /\ UNCHANGED <<storageFault, normVars, appVars, otherVars>>

\* a caller clears an override
StoreClear ==
  /\ \E id \in ReceiptIds :
       LET r == clearDraftOverride(storage, storageFault, id)
       IN  /\ storage' = After(storage, r)
           /\ lastOp' = [op |-> "clear", id |-> id, patch |-> EmptyObj, raised |-> r.threw,
                         before |-> storage, fault |-> storageFault, prev |-> lastOp.op,
                         prevId |-> IF lastOp.op = "none" THEN id ELSE lastOp.id,
                         prevPatch |-> IF lastOp.op = "set" THEN lastOp.patch ELSE EmptyObj]
  /\ UNCHANGED <<storageFault, normVars, appVars, otherVars>>

\* the stored item is lost, or replaced by text the store did not write
StorageValues ==
  {Missing, EmptyText, Invalid, Json(Null), Json(Whole(3)), Json(S1("A")), Json(Whole(0))}

StoreCorrupt ==
  /\ \E st \in StorageValues : storage' = st
  /\ lastOp' = NoOp
  /\ UNCHANGED <<storageFault, normVars, appVars, otherVars>>

\* localStorage starts or stops throwing (disabled, quota exceeded)
StoreFault ==
  /\ \E f \in [read : BOOLEAN, write : BOOLEAN] : storageFault' = f
  /\ storageFault' # storageFault
  /\ lastOp' = NoOp
  /\ UNCHANGED <<storage, normVars, appVars, otherVars>>

StoreInit ==
  /\ storage = Missing
  /\ storageFault = NoFault
  /\ lastOp = NoOp

\* ------------------------------------------------------------------------
\* receiptCache.ts: the List Snapshot Cache
\* ------------------------------------------------------------------------
IdStr(id) == Str(<<"r", IF id = "r1" THEN "1" ELSE "2">>)

\* the Map key of a row: receipt.receiptId || receipt.id || receipt.receipt_id
RowId(receipt) ==
  OrElse(Get(receipt, "receiptId"), OrElse(Get(receipt, "id"), Get(receipt, "receipt_id")))

\* setReceiptsCache(receipts): a new Map holding the rows that have an id
setReceiptsCache(receipts) ==
  LET ids == {id \in ReceiptIds : \E i \in 1..Len(receipts) : RowId(receipts[i]) = IdStr(id)}
      last(id) == CHOOSE i \in 1..Len(receipts) :
                    /\ RowId(receipts[i]) = IdStr(id)
                    /\ \A j \in (i + 1)..Len(receipts) : RowId(receipts[j]) # IdStr(id)
  IN  [id \in ids |-> receipts[last(id)]]

getCachedReceipt(cache, receiptId) ==
  IF receiptId \in DOMAIN cache THEN cache[receiptId] ELSE Undef

\* updateCachedReceipt creating the entry it does not find
updateCachedReceiptUpsert(cache, receiptId, updates) ==
  [id \in (DOMAIN cache) \cup {receiptId} |->
     IF id # receiptId THEN cache[id]
     ELSE IF id \in DOMAIN cache THEN Obj(Spread(cache[id].o, updates.o))
     ELSE updates]

\* updateCachedReceipt(receiptId, updates): the cache afterwards
updateCachedReceipt(cache, receiptId, updates) ==
  IF receiptId \in DOMAIN cache
  THEN [cache EXCEPT ![receiptId] = Obj(Spread(@.o, updates.o))]
  ELSE cache

\* the rows a list may hold: the id under each of its three names, rows of
\* one receipt that differ, a row without an id
CacheRows ==
  { Obj([receiptId |-> IdStr("r1"), payee |-> S1("A"), total |-> Whole(50)]),
    Obj([receiptId |-> EmptyStr, id |-> IdStr("r1"), payee |-> S1("B")]),
    Obj([receipt_id |-> IdStr("r2"), status |-> DRAFT]),
    Obj([payee |-> S1("B")]) }

MaxRows == 2

CacheUpdates ==
  { Obj([payee |-> S1("C"), total |-> Whole(55)]),
    Obj([status |-> CONFIRMED]),
    Obj([total |-> Undef]) }

\* a caller replaces the cache by a list
CacheSet ==
  /\ \E n \in 0..MaxRows : \E receipts \in [1..n -> CacheRows] :
       /\ receiptCache' = setReceiptsCache(receipts)
       /\ cacheOp' = [op |-> "set", receipts |-> receipts, before |-> receiptCache]
  /\ UNCHANGED <<backend, pageVars, storeVars, normVars, race, farVars>>

\* a caller patches the row of a receipt
CachePatch ==
  /\ \E id \in ReceiptIds, updates \in CacheUpdates :
       /\ receiptCache' = updateCachedReceipt(receiptCache, id, updates)
       /\ cacheOp' = [op |-> "patch", id |-> id, updates |-> updates, before |-> receiptCache]
  /\ UNCHANGED <<backend, pageVars, storeVars, normVars, race, farVars>>

\* ------------------------------------------------------------------------
\* api.ts
\* ------------------------------------------------------------------------

\* a key-value map holding key only when the value is defined
IfDefined(key, value) == IF value # Undef THEN (key :> value) ELSE <<>>

\* the first of the names whose value is neither undefined nor null (??)
RECURSIVE CoalesceKeys(_, _)
CoalesceKeys(receipt, names) ==
  IF Len(names) = 0 THEN Undef
  ELSE Coalesce(Get(receipt, Head(names)), CoalesceKeys(receipt, Tail(names)))

\* normalizeReceipt(receipt): a list row with receiptId and the common
\* aliases mapped to the canonical names
normalizeReceipt(receipt) ==
  LET id == RowId(receipt)
      payee == CoalesceKeys(receipt, <<"payee", "merchant", "vendor">>)
      date == CoalesceKeys(receipt, <<"date", "receipt_date", "receiptDate">>)
      total == CoalesceKeys(receipt, <<"total", "total_amount", "amount", "grandTotal">>)
      vat == CoalesceKeys(receipt, <<"vat", "vat_amount", "tax", "taxAmount">>)
      vatRate == CoalesceKeys(receipt, <<"vatRate", "vat_rate", "taxRate", "tax_rate">>)
      ynabExportedAt == CoalesceKeys(receipt, <<"ynabExportedAt", "ynab_exported_at">>)
  IN  Obj(Spread(Spread(Spread(Spread(Spread(Spread(Spread(receipt.o,
        ("receiptId" :> id)),
        IfDefined("payee", payee)),
        IfDefined("date", date)),
        IfDefined("total", total)),
        IfDefined("vat", vat)),
        IfDefined("vatRate", vatRate)),
        IfDefined("ynabExportedAt", ynabExportedAt)))

\* a body that is the payload alone
updateReceiptBodyCamelOnly(payload) == Obj(payload.o)

\* the body updateReceipt(receiptId, payload) PUTs: the payload and the
\* snake_case twin of each defined field
updateReceiptBody(payload) ==
  Obj(Spread(Spread(Spread(Spread(Spread(Spread(Spread(payload.o,
    IfDefined("vat_rate", Get(payload, "vatRate"))),
    IfDefined("vat_amount", Get(payload, "vat"))),
    IfDefined("total_amount", Get(payload, "total"))),
    IfDefined("receipt_date", Get(payload, "date"))),
    IfDefined("merchant", Get(payload, "payee"))),
    IfDefined("ynab_exported_at", Get(payload, "ynabExportedAt"))),
    IfDefined("category", Get(payload, "category"))))

\* the values a caller may give a field of an UpdateReceiptPayload; "absent"
\* stands for a key the payload does not have
Absent == [t |-> "absent"]

PayloadValues ==
  [ payee |-> {Absent, Undef, S1("A")},
    date |-> {Absent, Undef, Str(<<"2", "0", "2", "5", "-", "1", "1", "-", "1", "4">>)},
    total |-> {Absent, Undef, Whole(55), NaNv},
    vat |-> {Absent, Undef, Whole(9)},
    vatRate |-> {Absent, Undef, Str(<<"2", "2">>)},
    ynabExportedAt |-> {Absent, Undef, Null, S1("T")} ]

\* updateReceipt(receiptId, payload): apiRequest sends JSON.stringify(body)
updateReceipt ==
  /\ \E c \in [payee : PayloadValues.payee, date : PayloadValues.date,
               total : PayloadValues.total, vat : PayloadValues.vat,
               vatRate : PayloadValues.vatRate,
               ynabExportedAt : PayloadValues.ynabExportedAt] :
       LET payload == Obj([k \in {f \in DOMAIN c : c[f] # Absent} |-> c[k]])
       IN  sent' = [called |-> TRUE, payload |-> payload,
                    body |-> Jsonify(updateReceiptBody(payload))]
  /\ UNCHANGED <<raw, normOut, parsed, storeVars, appVars, otherVars>>

\* ------------------------------------------------------------------------
\* Review.tsx: fetchReceipt
\* ------------------------------------------------------------------------

\* the own enumerable properties a spread copies out of a value
SpreadOf(v) ==
  IF IsObj(v) THEN v.o
  ELSE IF IsArr(v) THEN [k \in {DigitChars[i] : i \in 1..Len(v.a)} |-> v.a[DigitVal(k) + 1]]
  ELSE <<>>

\* best with the cached row spread over the override
bestOfCachedLast(cachedReceipt, localOverride) ==
  Obj(Spread(SpreadOf(Coalesce(localOverride, EmptyObj)),
             SpreadOf(Coalesce(cachedReceipt, EmptyObj))))

\* best = { ...(cachedReceipt ?? {}), ...(localOverride ?? {}) }
bestOf(cachedReceipt, localOverride) ==
  Obj(Spread(SpreadOf(Coalesce(cachedReceipt, EmptyObj)),
             SpreadOf(Coalesce(localOverride, EmptyObj))))

\* one "...(cond ? { canonical: v, alias: v } : {})" of mergedResponse
Overlay2(cond, canonical, alias, v) ==
  IF cond THEN (canonical :> v) @@ (alias :> v) ELSE <<>>
Overlay1(cond, canonical, v) == IF cond THEN (canonical :> v) ELSE <<>>

mergedResponse(apiObj, best) ==
  LET payee == Get(best, "payee")
      date == Get(best, "date")
      total == Get(best, "total")
      vat == Get(best, "vat")
      vatRate == Get(best, "vatRate")
      category == Get(best, "category")
      notes == Get(best, "notes")
      status == Get(best, "status")
  IN  Obj(Spread(Spread(Spread(Spread(Spread(Spread(Spread(Spread(SpreadOf(apiObj),
        Overlay2(Truthy(payee), "payee", "merchant", payee)),
        Overlay2(Truthy(date), "date", "receipt_date", date)),
        Overlay2(total # Undef /\ total # Null, "total", "total_amount", total)),
        Overlay2(vat # Undef /\ vat # Null, "vat", "vat_amount", vat)),
        Overlay2(Truthy(vatRate), "vatRate", "vat_rate", vatRate)),
        Overlay1(Truthy(category), "category", category)),
        Overlay1(notes # Undef, "notes", notes)),
        Overlay1(Truthy(status), "status", status)))

\* the record fetchReceipt hands to setReceipt, or the throw its catch takes
loadForReview(cachedReceipt, localOverride, response) ==
  normalizeReceiptResponse(mergedResponse(response, bestOf(cachedReceipt, localOverride)))

\* String(n).replace('.', ',')
FormNumber(v) == IF v # Null THEN Str(ReplaceFirst(NumToString(v), ".", ",")) ELSE EmptyStr

InitialForm ==
  [date |-> EmptyStr, total |-> EmptyStr, payee |-> EmptyStr, vat |-> EmptyStr,
   vatRate |-> Bucket22, categoryId |-> EmptyStr, notes |-> EmptyStr]

\* the prefill of the form from the normalized record
formOf(normalized, apiObj, best) ==
  [date |-> OrElse(normalized.date, EmptyStr),
   total |-> FormNumber(normalized.total),
   payee |-> OrElse(normalized.payee, EmptyStr),
   vat |-> FormNumber(normalized.vat),
   vatRate |-> OrElse(normalized.vatRate, Bucket22),
   categoryId |-> OrElse(Coalesce(Get(apiObj, "categoryId"),
                           Coalesce(Get(apiObj, "category_id"), Get(best, "categoryId"))),
                         EmptyStr),
   notes |-> OrElse(normalized.notes, EmptyStr)]

\* ------------------------------------------------------------------------
\* The backend, as far as the pages see it
\* ------------------------------------------------------------------------
EXTRACTED == Str(<<"E", "X", "T", "R", "A", "C", "T", "E", "D">>)
Date14 == Str(<<"2", "0", "2", "5", "-", "1", "1", "-", "1", "4">>)
Date10 == Str(<<"2", "0", "2", "5", "-", "1", "1", "-", "1", "0">>)
DateDMY == Str(<<"1", "4", "-", "1", "1", "-", "2", "0", "2", "5">>)

\* the receipts the Review page is opened for
ReviewIds == {"r1"}

\* the record of a receipt after upload and OCR
UploadedRecord(id) ==
  Obj([receiptId |-> IdStr(id), status |-> EXTRACTED, total_amount |-> Whole(48),
       merchant |-> S1("B")])

\* what GET /receipts/{id} may answer: the current record, or a payload of
\* another shape that lags behind it (OCR data only, aliases, wrappers)
FreshPayloads(id) ==
  { Obj([receiptId |-> IdStr(id), total_amount |-> Whole(48)]),
    Obj([amount |-> Whole(48), vendor |-> S1("B"), receipt_date |-> DateDMY,
         tax |-> Whole(9), tax_rate |-> Str(<<"1", "0", "%">>)]),
    Obj([confirmed |-> Obj([total |-> Whole(48)])]),
    Obj([final |-> Obj([merchant |-> S1("B")])]),
    Obj([draft |-> Obj([total |-> Whole(48), date |-> Date10])]),
    Obj([receipt |-> Obj([vat_rate |-> Str(<<"1", "0">>), vat |-> Whole(9)])]),
    Obj([ocr |-> Obj([summary |-> Obj([fields |->
           Obj([total |-> Str(<<"4", "8", ",", "0", "0">>), vendor |-> S1("B")])])])]),
    EmptyObj,
    Arr(<<Obj([total |-> Whole(48)])>>) }

\* the answers of GET /receipts/{id} while the pages run: the current record
\* or one of three lagging shapes
LaggingPayloads(id) ==
  { Obj([receiptId |-> IdStr(id), total_amount |-> Whole(48)]),
    Obj([amount |-> Whole(48), vendor |-> S1("B"), receipt_date |-> DateDMY,
         tax |-> Whole(9)]),
    Obj([confirmed |-> Obj([total |-> Whole(48)])]) }

GetResponses(id) ==
  LaggingPayloads(id) \cup (IF IsObj(backend[id]) THEN {backend[id]} ELSE {})

\* the backend applies a PUT body to its record
PutApplied(record, body) == Obj(Spread(SpreadOf(record), body.o))

\* ------------------------------------------------------------------------
\* Review.tsx: the page
\* ------------------------------------------------------------------------
MaxLoads == 1

NotShown == [set |-> FALSE]
NoSave == [phase |-> "none"]

\* the payload of the last save when that save was a confirm whose PUT
\* succeeded, for receipt id
ConfirmedPayload(id) ==
  IF save.phase = "ok" /\ save.id = id /\ save.status = CONFIRMED THEN save.payload ELSE Undef

\* the component is unmounted: its state is gone, its requests stay in flight
Orphaned(ls) == {[l EXCEPT !.live = FALSE] : l \in ls}

\* the Review page is opened for a receipt: useEffect runs fetchReceipt up to
\* its await of getReceipt
fetchReceiptStart ==
  /\ reviewId = "none"
  /\ Cardinality(loads) < MaxLoads
  /\ \E id \in ReviewIds :
       /\ reviewId' = id
       /\ loads' = loads \cup
            {[id |-> id,
              cachedReceipt |-> getCachedReceipt(receiptCache, id),
              localOverride |-> getDraftOverride(storage, storageFault, id).v,
              conf |-> ConfirmedPayload(id),
              live |-> TRUE]}
  /\ loading' = TRUE
  /\ formData' = InitialForm
  /\ shown' = NotShown
  /\ UNCHANGED <<save, receiptCache, backend, storeVars, normVars, otherVars>>

\* getReceipt resolves with one of the responses: merge, normalize,
\* setReceipt, setFormData
fetchReceiptThen(responses) ==
  /\ \E l \in loads : \E response \in responses[l.id] :
       LET best == bestOf(l.cachedReceipt, l.localOverride)
           normalized == loadForReview(l.cachedReceipt, l.localOverride, response)
       IN  /\ loads' = loads \ {l}
           /\ IF l.live
              THEN /\ shown' = [set |-> TRUE, id |-> l.id, cachedReceipt |-> l.cachedReceipt,
                                localOverride |-> l.localOverride, response |-> response,
                                conf |-> l.conf, receipt |-> normalized.rec]
                   /\ formData' = formOf(normalized.rec, Obj(SpreadOf(response)), best)
                   /\ loading' = FALSE
              ELSE UNCHANGED <<shown, formData, loading>>
  /\ UNCHANGED <<reviewId, save, receiptCache, backend, storeVars, normVars>>

fetchReceiptResolveWith(responses) ==
  fetchReceiptThen(responses) /\ UNCHANGED otherVars

fetchReceiptResolve ==
  fetchReceiptResolveWith([id \in ReviewIds |-> GetResponses(id)])

\* getReceipt rejects: toast, navigate('/')
fetchReceiptReject ==
  /\ \E l \in loads : loads' = Orphaned(loads \ {l})
  /\ reviewId' = "none"
  /\ loading' = TRUE
  /\ formData' = InitialForm
  /\ shown' = NotShown
  /\ UNCHANGED <<save, receiptCache, backend, storeVars, normVars, otherVars>>

\* the user leaves the Review page
LeaveReview ==
  /\ reviewId # "none"
  /\ reviewId' = "none"
  /\ loads' = Orphaned(loads)
  /\ loading' = TRUE
  /\ formData' = InitialForm
  /\ shown' = NotShown
  /\ UNCHANGED <<save, receiptCache, backend, storeVars, normVars, otherVars>>

\* what the user types into the form
FormInputs ==
  { <<"date", Date14>>, <<"payee", S1("B")>>, <<"total", Str(<<"5", "5">>)>>,
    <<"vat", S1("9")>> }

\* handleInputChange(field, value)
handleInputChange ==
  /\ reviewId # "none" /\ ~loading
  /\ \E e \in FormInputs :
       /\ formData[e[1]] # e[2]
       /\ formData' = [formData EXCEPT ![e[1]] = e[2]]
  /\ UNCHANGED <<reviewId, loading, loads, shown, save, receiptCache, backend,
                 storeVars, normVars, otherVars>>

\* validateForm(): no field has an error
validateForm(fd) ==
  /\ Len(Trim(fd.date.s)) > 0
  /\ Len(Trim(fd.total.s)) > 0 /\ parseFloat(ReplaceFirst(fd.total.s, ",", ".")) # NaNv
  /\ Len(Trim(fd.payee.s)) > 0
  /\ Len(Trim(fd.vat.s)) > 0 /\ parseFloat(ReplaceFirst(fd.vat.s, ",", ".")) # NaNv
  /\ Truthy(fd.vatRate)

\* the payload handleSubmit builds from the form
payloadOf(fd, status) ==
  Obj([status |-> status,
       payee |-> Str(Trim(fd.payee.s)),
       date |-> fd.date,
       total |-> parseFloat(ReplaceFirst(fd.total.s, ",", ".")),
       vat |-> parseFloat(ReplaceFirst(fd.vat.s, ",", ".")),
       vatRate |-> fd.vatRate,
       categoryId |-> OrElse(fd.categoryId, Null),
       notes |-> Str(Trim(fd.notes.s))])

\* the fields handleSubmit overlays onto the cached list row
cacheUpdateOf(payload) ==
  Obj([f \in {"payee", "total", "date", "vat", "vatRate", "categoryId", "notes", "status"}
         |-> payload.o[f]])

\* handleSubmit without the call of validateForm
handleSubmitUnvalidated ==
  /\ reviewId # "none" /\ ~loading
  /\ save.phase # "pending"
  /\ \E status \in {DRAFT, CONFIRMED} :
       save' = [phase |-> "pending", id |-> reviewId, status |-> status,
                payload |-> payloadOf(formData, status),
                body |-> updateReceiptBody(payloadOf(formData, status))]
  /\ UNCHANGED <<reviewId, loading, loads, shown, formData, receiptCache, backend,
                 storeVars, normVars, otherVars>>

\* handleSubmit(status) up to its await of updateReceipt: an invalid form
\* ends the call, a valid one PUTs the payload
handleSubmit ==
  /\ reviewId # "none" /\ ~loading
  /\ save.phase # "pending"
  /\ \E status \in {DRAFT, CONFIRMED} :
       IF validateForm(formData)
       THEN save' = [phase |-> "pending", id |-> reviewId, status |-> status,
                     payload |-> payloadOf(formData, status),
                     body |-> updateReceiptBody(payloadOf(formData, status))]
       ELSE save' = [phase |-> "invalid", id |-> reviewId, status |-> status]
  /\ UNCHANGED <<reviewId, loading, loads, shown, formData, receiptCache, backend,
                 storeVars, normVars, otherVars>>

\* the stored item when a confirm does not clear the override
storageAfterSaveKeeping(st, fault, id, payload, status) ==
  After(st, setDraftOverride(st, fault, id, payload))

\* the stored item after the writes that follow a successful PUT
storageAfterSave(st, fault, id, payload, status) ==
  LET s1 == After(st, setDraftOverride(st, fault, id, payload))
  IN  IF status = CONFIRMED THEN After(s1, clearDraftOverride(s1, fault, id)) ELSE s1

\* updateReceipt resolves: setDraftOverride, updateCachedReceipt, on a confirm
\* clearDraftOverride, then navigate away
handleSubmitResolve ==
  /\ save.phase = "pending"
  /\ IsObj(backend[save.id])
  /\ backend' = [backend EXCEPT ![save.id] = PutApplied(@, save.body)]
  /\ storage' = storageAfterSave(storage, storageFault, save.id, save.payload, save.status)
  /\ receiptCache' = updateCachedReceipt(receiptCache, save.id, cacheUpdateOf(save.payload))
  /\ save' = [save EXCEPT !.phase = "ok"]
  /\ reviewId' = "none"
  /\ loads' = Orphaned(loads)
  /\ loading' = TRUE
  /\ formData' = InitialForm
  /\ shown' = NotShown
  /\ UNCHANGED <<storageFault, lastOp, normVars, otherVars>>

\* handleSubmit writing the override and the cached row ahead of the PUT
handleSubmitRejectAfterWrites ==
  /\ save.phase = "pending"
  /\ save' = [save EXCEPT !.phase = "failed"]
  /\ storage' = After(storage, setDraftOverride(storage, storageFault, save.id, save.payload))
  /\ receiptCache' = updateCachedReceipt(receiptCache, save.id, cacheUpdateOf(save.payload))
  /\ UNCHANGED <<reviewId, loading, loads, shown, formData, backend,
                 storageFault, lastOp, normVars, otherVars>>

\* updateReceipt rejects: toast, the page stays
handleSubmitReject ==
  /\ save.phase = "pending"
  /\ save' = [save EXCEPT !.phase = "failed"]
  /\ UNCHANGED <<reviewId, loading, loads, shown, formData, receiptCache, backend,
                 storeVars, normVars, otherVars>>

\* handleDelete(): deleteReceipt resolved (the backend refuses a confirmed
\* receipt), clearDraftOverride, navigate('/receipts')
handleDelete ==
  /\ reviewId # "none" /\ ~loading
  /\ save.phase # "pending"
  /\ shown.set /\ shown.receipt.status # CONFIRMED
  /\ IsObj(backend[reviewId]) /\ Get(backend[reviewId], "status") # CONFIRMED
  /\ backend' = [backend EXCEPT ![reviewId] = Null]
  /\ storage' = After(storage, clearDraftOverride(storage, storageFault, reviewId))
  /\ reviewId' = "none"
  /\ loads' = Orphaned(loads)
  /\ loading' = TRUE
  /\ formData' = InitialForm
  /\ shown' = NotShown
  /\ UNCHANGED <<save, receiptCache, storageFault, lastOp, normVars, otherVars>>

\* ------------------------------------------------------------------------
\* Review.tsx: handleSubmit write by write, and the tab reloading
\* ------------------------------------------------------------------------

\* the backend applies the PUT of the save; its answer is on the way
handleSubmitPut ==
  /\ save.phase = "pending"
  /\ IsObj(backend[save.id])
  /\ backend' = [backend EXCEPT ![save.id] = PutApplied(@, save.body)]
  /\ save' = [save EXCEPT !.phase = "applied"]
  /\ UNCHANGED <<reviewId, loading, loads, shown, formData, receiptCache,
                 storeVars, normVars, otherVars>>

\* updateReceipt has resolved: setDraftOverride(receiptId, payload)
handleSubmitSetOverride ==
  /\ save.phase = "applied"
  /\ storage' = After(storage, setDraftOverride(storage, storageFault, save.id, save.payload))
  /\ save' = [save EXCEPT !.phase = "override"]
  /\ UNCHANGED <<reviewId, loading, loads, shown, formData, receiptCache, backend,
                 storageFault, lastOp, normVars, otherVars>>

\* updateCachedReceipt(receiptId, {...})
handleSubmitUpdateCache ==
  /\ save.phase = "override"
  /\ receiptCache' = updateCachedReceipt(receiptCache, save.id, cacheUpdateOf(save.payload))
  /\ save' = [save EXCEPT !.phase = "cache"]
  /\ UNCHANGED <<reviewId, loading, loads, shown, formData, backend,
                 storeVars, normVars, otherVars>>

\* on a confirm clearDraftOverride(receiptId); then navigate away
handleSubmitFinish ==
  /\ save.phase = "cache"
  /\ storage' = IF save.status = CONFIRMED
                THEN After(storage, clearDraftOverride(storage, storageFault, save.id))
                ELSE storage
  /\ save' = [save EXCEPT !.phase = "ok"]
  /\ reviewId' = "none"
  /\ loads' = Orphaned(loads)
  /\ loading' = TRUE
  /\ formData' = InitialForm
  /\ shown' = NotShown
  /\ UNCHANGED <<receiptCache, backend, storageFault, lastOp, normVars, otherVars>>

\* the tab is reloaded or crashes: the page and the in-memory cache start
\* anew, requests in flight are dropped, localStorage and the backend stay
Reload ==
  /\ reviewId # "none" \/ receiptCache # <<>> \/ save.phase # "none"
  /\ reviewId' = "none"
  /\ loads' = {}
  /\ loading' = TRUE
  /\ formData' = InitialForm
  /\ shown' = NotShown
  /\ receiptCache' = <<>>
  /\ save' = IF save.phase \in {"applied", "override", "cache"}
             THEN [save EXCEPT !.phase = "interrupted"]
             ELSE IF save.phase = "ok" THEN save ELSE NoSave
  /\ UNCHANGED <<backend, storeVars, normVars, otherVars>>

\* ------------------------------------------------------------------------
\* The backend record changes behind the page
\* ------------------------------------------------------------------------

\* the total another client gives a receipt
ServerTotal == Whole(60)

\* another client PUTs a new total for a confirmed receipt while this page
\* has no load and no save in flight
BackendChange ==
  /\ loads = {} /\ save.phase # "pending"
  /\ \E id \in ReviewIds :
       /\ Get(backend[id], "status") = CONFIRMED
       /\ Get(backend[id], "total") # ServerTotal
       /\ backend' = [backend EXCEPT ![id] =
            PutApplied(@, updateReceiptBody(Obj([total |-> ServerTotal])))]
  /\ UNCHANGED <<receiptCache, pageVars, storeVars, normVars, otherVars>>

\* ------------------------------------------------------------------------
\* Review.tsx: the route changes while getReceipt is awaited
\* ------------------------------------------------------------------------
MaxRaceLoads == 2

NoLoad == [n |-> 0]
NoRace == [started |-> 0, mine |-> {}, pending |-> FALSE, both |-> FALSE,
           last |-> NoLoad, lastMine |-> NoLoad]

\* a superseding load cancelling the loads before it
SupersededCancelled(ls) == Orphaned(ls)

\* the effect has no cleanup: the loads a new fetchReceipt supersedes stay as
\* they are
Superseded(ls) == ls

\* navigate('/review/' + id): the page is mounted, or stays mounted while
\* its receiptId changes, and the effect runs fetchReceipt up to its await
RouteTo ==
  /\ race.started < MaxRaceLoads
  /\ \E id \in ReceiptIds :
       LET n == race.started + 1
           mounts == reviewId = "none"
           load == [id |-> id,
                    cachedReceipt |-> getCachedReceipt(receiptCache, id),
                    localOverride |-> getDraftOverride(storage, storageFault, id).v,
                    conf |-> ConfirmedPayload(id),
                    live |-> TRUE, n |-> n]
       IN  /\ id # reviewId
           /\ reviewId' = id
           /\ loads' = (IF mounts THEN loads ELSE Superseded(loads)) \cup {load}
           /\ IF mounts
              THEN loading' = TRUE /\ formData' = InitialForm /\ shown' = NotShown
              ELSE UNCHANGED <<loading, formData, shown>>
           /\ race' = [race EXCEPT !.started = n,
                                   !.mine = (IF mounts THEN {} ELSE @) \cup {n},
                                   !.lastMine = IF mounts THEN NoLoad ELSE @]
  /\ UNCHANGED <<save, receiptCache, backend, storeVars, normVars, cacheOp, farVars>>

\* getReceipt of one of the loads resolves
RaceResolve ==
  /\ fetchReceiptThen([id \in ReceiptIds |-> GetResponses(id)])
  /\ LET l == CHOOSE x \in loads : x \notin loads'
     IN  race' = [race EXCEPT !.pending = loads' # {},
                             !.both = loads' = {} /\ race.pending,
                             !.last = l,
                             !.lastMine = IF l.n \in race.mine THEN l ELSE @]
  /\ UNCHANGED <<cacheOp, farVars>>

\* ------------------------------------------------------------------------
\* Processing.tsx
\* ------------------------------------------------------------------------
maxPolls == 30

CREATED == Str(<<"C", "R", "E", "A", "T", "E", "D">>)
READY == Str(<<"R", "E", "A", "D", "Y">>)
PENDING_REVIEW ==
  Str(<<"P", "E", "N", "D", "I", "N", "G", "_", "R", "E", "V", "I", "E", "W">>)

\* the page after mounting: the first effect has set the timer
ProcMounted ==
  [status |-> "processing", pollCount |-> 0, progress |-> 0, phase |-> "timer",
   checks |-> 0]

\* what getReceipt may answer while the receipt is processed
ProcResponses ==
  { EmptyObj, Obj([receiptId |-> IdStr("r1"), status |-> CREATED]),
    UploadedRecord("r1"), Obj([merchant |-> S1("B")]), Obj([total_amount |-> Whole(0)]),
    Obj([status |-> PENDING_REVIEW]), Null }

\* the condition under which checkStatus takes processing as complete
ProcessingComplete(normalized) ==
  \/ normalized.status \in {READY, EXTRACTED, PENDING_REVIEW, DRAFT}
  \/ Truthy(normalized.payee)
  \/ normalized.total # Null

\* Math.min(90, (pollCount / maxPolls) * 100), in units of 1/Scale
ProgressOf(pollCount) ==
  LET p == (pollCount * 100 * Scale) \div maxPolls
  IN  IF p < 90 * Scale THEN p ELSE 90 * Scale

\* the 2000 ms timer fires: checkStatus runs up to its await of getReceipt
ProcTimerFires ==
  /\ proc.status = "processing" /\ proc.phase = "timer"
  /\ proc' = [proc EXCEPT !.phase = "checking", !.checks = @ + 1]
  /\ UNCHANGED <<normVars, storeVars, appVars, otherThanProc>>

\* getReceipt resolves: ready, one more poll, or ready at the timeout;
\* normalizeReceiptResponse raising takes the catch
ProcCheckResolves ==
  /\ proc.phase = "checking"
  /\ \E response \in ProcResponses :
       LET normalized == normalizeReceiptResponse(response)
       IN  proc' =
             IF normalized.threw
               THEN [proc EXCEPT !.status = "error", !.phase = "idle"]
             ELSE IF ProcessingComplete(normalized.rec)
               THEN [proc EXCEPT !.status = "ready", !.progress = 100 * Scale,
                                 !.phase = "idle"]
             ELSE IF proc.pollCount < maxPolls
               THEN [proc EXCEPT !.pollCount = @ + 1,
                                 !.progress = ProgressOf(proc.pollCount),
                                 !.phase = "timer"]
             ELSE [proc EXCEPT !.status = "ready", !.progress = 100 * Scale,
                               !.phase = "idle"]
  /\ UNCHANGED <<normVars, storeVars, appVars, otherThanProc>>

\* getReceipt rejects
ProcCheckRejects ==
  /\ proc.phase = "checking"
  /\ proc' = [proc EXCEPT !.status = "error", !.phase = "idle"]
  /\ UNCHANGED <<normVars, storeVars, appVars, otherThanProc>>

\* handleRetry(), offered on the error screen
handleRetry ==
  /\ proc.status = "error"
  /\ proc' = ProcMounted
  /\ UNCHANGED <<normVars, storeVars, appVars, otherThanProc>>

\* ------------------------------------------------------------------------
\* Export.tsx in YNAB mode, ynabExportStore.ts, and YNAB
\* ------------------------------------------------------------------------
MaxYnabSends == 2

\* the page before its list has loaded; the backend holds r1 and r2 as
\* confirmed receipts that were never exported
ExportInit ==
  [ receipts |-> {},        \* the rows of the list, by id
    exportedAt |-> {},      \* the rows that carry ynabExportedAt
    selectedIds |-> {}, selectAll |-> TRUE, exportMode |-> "csv",
    exporting |-> "no",     \* "no", or the await handleExportYNAB is at
    sending |-> {},         \* selectedReceipts of the export in progress
    marked |-> {},          \* backend: receipts with ynabExportedAt
    exports |-> {},         \* localStorage: the keys of spendify_ynab_exports
    created |-> [id \in ReceiptIds |-> 0] ]  \* YNAB: transactions per receipt

\* exportableReceipts, by id
exportableReceipts(y) ==
  IF y.exportMode = "ynab" THEN y.receipts \ y.exportedAt ELSE y.receipts

\* selectedReceipts, by id
selectedReceipts(y) == exportableReceipts(y) \cap y.selectedIds

\* markAsExportedToYNAB(receiptIds): the keys of the stored map afterwards
markAsExportedToYNAB(exports, receiptIds) == exports \cup receiptIds

\* the page is opened or reloaded: fetchReceipts() resolved
ExportFetch ==
  /\ ynab.exporting = "no"
  /\ ynab' = [ynab EXCEPT !.receipts = ReceiptIds, !.exportedAt = ynab.marked,
                          !.selectedIds = ReceiptIds, !.selectAll = TRUE,
                          !.exportMode = "csv"]
  /\ UNCHANGED <<normVars, storeVars, appVars, otherThanYnab>>

\* setExportMode(mode) and the effect on exportMode
ExportSetMode ==
  /\ ynab.exporting = "no"
  /\ \E mode \in {"csv", "ynab"} :
       /\ mode # ynab.exportMode
       /\ LET y == [ynab EXCEPT !.exportMode = mode]
              newSelection == ynab.selectedIds \cap (ynab.receipts \ ynab.exportedAt)
          IN  ynab' = IF mode = "ynab"
                      THEN [y EXCEPT !.selectedIds = newSelection,
                                     !.selectAll = newSelection = exportableReceipts(y)
                                                   /\ exportableReceipts(y) # {}]
                      ELSE y
  /\ UNCHANGED <<normVars, storeVars, appVars, otherThanYnab>>

\* handleSelectReceipt(receiptId, checked)
handleSelectReceipt ==
  /\ ynab.exporting = "no"
  /\ \E id \in exportableReceipts(ynab), checked \in BOOLEAN :
       LET newSet == IF checked THEN ynab.selectedIds \cup {id} ELSE ynab.selectedIds \ {id}
       IN  /\ newSet # ynab.selectedIds
           /\ ynab' = [ynab EXCEPT !.selectedIds = newSet,
                         !.selectAll = Cardinality(newSet) = Cardinality(exportableReceipts(ynab))]
  /\ UNCHANGED <<normVars, storeVars, appVars, otherThanYnab>>

\* handleExportYNAB() up to its await of exportToYNAB (token and account id
\* are configured)
handleExportYNAB ==
  /\ ynab.exporting = "no" /\ ynab.exportMode = "ynab"
  /\ selectedReceipts(ynab) # {}
  /\ \A id \in selectedReceipts(ynab) : ynab.created[id] < MaxYnabSends
  /\ ynab' = [ynab EXCEPT !.exporting = "ynab", !.sending = selectedReceipts(ynab)]
  /\ UNCHANGED <<normVars, storeVars, appVars, otherThanYnab>>

\* exportToYNAB resolves: YNAB has created one transaction per receipt, the
\* updateReceipt calls are sent
ExportYnabResolves ==
  /\ ynab.exporting = "ynab"
  /\ ynab' = [ynab EXCEPT !.exporting = "marking",
                          !.created = [id \in ReceiptIds |->
                                         IF id \in ynab.sending THEN @[id] + 1 ELSE @[id]]]
  /\ UNCHANGED <<normVars, storeVars, appVars, otherThanYnab>>

\* exportToYNAB rejects: toast
ExportYnabRejects ==
  /\ ynab.exporting = "ynab"
  /\ ynab' = [ynab EXCEPT !.exporting = "no", !.sending = {}]
  /\ UNCHANGED <<normVars, storeVars, appVars, otherThanYnab>>

\* every updateReceipt resolves: markAsExportedToYNAB, toast
ExportMarkResolves ==
  /\ ynab.exporting = "marking"
  /\ ynab' = [ynab EXCEPT !.exporting = "no", !.sending = {},
                          !.marked = @ \cup ynab.sending,
                          !.exports = markAsExportedToYNAB(@, ynab.sending)]
  /\ UNCHANGED <<normVars, storeVars, appVars, otherThanYnab>>

\* one of the updateReceipt calls rejects (the others may have been
\* applied): toast, nothing is marked locally
ExportMarkRejects ==
  /\ ynab.exporting = "marking"
  /\ \E applied \in SUBSET ynab.sending :
       /\ applied # ynab.sending
       /\ ynab' = [ynab EXCEPT !.exporting = "no", !.sending = {},
                               !.marked = @ \cup applied]
  /\ UNCHANGED <<normVars, storeVars, appVars, otherThanYnab>>

\* ------------------------------------------------------------------------
\* auth.ts and AuthCallback: the OAuth state parameter
\* ------------------------------------------------------------------------
\* the values generateRandomString(32) returns
OAuthStates == {"s1", "s2"}

\* what URLSearchParams.get returns for a parameter the URL does not have
NoParam == "null"

OAuthFlows == {"implicit", "authorization_code", "authorization_code_no_pkce"}

\* localStorage without a saved state or session, the default flow
AuthInit ==
  [ savedState |-> NoParam, flow |-> "authorization_code", session |-> "none",
    last |-> NoCall ]

\* setOAuthFlow(flow)
setOAuthFlow ==
  /\ \E flow \in OAuthFlows : flow # auth.flow /\ auth' = [auth EXCEPT !.flow = flow]
  /\ UNCHANGED <<normVars, storeVars, appVars, otherThanAuth>>

\* buildAuthorizeUrl(): generateAndSaveState() for a login attempt
generateAndSaveState ==
  /\ \E state \in OAuthStates : auth' = [auth EXCEPT !.savedState = state]
  /\ UNCHANGED <<normVars, storeVars, appVars, otherThanAuth>>

\* clearAuthSession()
clearAuthSession ==
  /\ auth.session # "none" \/ auth.savedState # NoParam
  /\ auth' = [auth EXCEPT !.session = "none", !.savedState = NoParam]
  /\ UNCHANGED <<normVars, storeVars, appVars, otherThanAuth>>

\* verifyState(state): the result and the saved state afterwards
verifyState(saved, state) == [ok |-> saved = state, savedState |-> NoParam]

\* `state && ...`: null and the empty string are falsy
Present(param) == param \notin {NoParam, ""}

\* AuthCallback.handleCallback() for a callback URL with the given error,
\* state, code and id_token parameters; exchanged is whether the token
\* endpoint answers the code with a session
handleCallback ==
  /\ \E error \in {NoParam, "access_denied"},
        state \in OAuthStates \cup {NoParam, ""},
        code \in {NoParam, "c"}, idToken \in {NoParam, "t"},
        exchanged \in BOOLEAN :
       LET checked == Present(state) /\ ~Present(error)
           v == IF checked THEN verifyState(auth.savedState, state)
                ELSE [ok |-> TRUE, savedState |-> auth.savedState]
           byCode == Present(code) /\ auth.flow # "implicit"
           saved == IF Present(error) \/ ~v.ok THEN "none"
                    ELSE IF byCode THEN (IF exchanged THEN "code" ELSE "none")
                    ELSE IF Present(idToken) THEN "tokens" ELSE "none"
       IN  /\ (exchanged = FALSE) \/ (saved = "code")
           /\ auth' = [auth EXCEPT
                 !.savedState = v.savedState,
                 !.session = IF saved = "none" THEN @ ELSE saved,
                 !.last = [called |-> TRUE, state |-> state,
                           savedState |-> auth.savedState,
                           verified |-> checked, saved |-> saved]]
  /\ UNCHANGED <<normVars, storeVars, appVars, otherThanAuth>>

\* ------------------------------------------------------------------------
\* useCategories.ts and saveCategories
\* ------------------------------------------------------------------------
MaxCalls == 2

\* the names typed into the category dialogs
TypedNames == { <<"a">>, <<" ", "b">>, <<" ">> }

\* categories.includes(name)
Listed(categories, name) == \E i \in 1..Len(categories) : categories[i] = name

\* saveCategories(categories): the array sent in the PUT body
Cleaned(categories) ==
  LET trimmed == [i \in 1..Len(categories) |-> Trim(categories[i])]
      Kept(c) == Len(c) > 0
  IN  SelectSeq(trimmed, Kept)

\* no pair of overlapping addCategory calls is being followed
NoPair == [names |-> {}, done |-> {}, ok |-> FALSE]

\* a call other than the pair's own resolutions happens
Disturbed(pair) ==
  IF pair.names # {} /\ pair.done # pair.names THEN [pair EXCEPT !.ok = FALSE]
  ELSE NoPair

\* the hook after fetchCategories found no categories
CategoriesInit ==
  [ categories |-> <<>>,   \* the hook's state
    server |-> <<>>,       \* the list the backend holds
    sent |-> <<>>,         \* the array last sent in a PUT
    calls |-> {},          \* the saveCategories calls in flight
    pair |-> NoPair ]

\* saveCategories(updated) is called by call number n of the given kind
SaveStarts(kind, name, updated, pair) ==
  \E n \in 1..MaxCalls :
    /\ \A c \in cats.calls : c.n # n
    /\ cats' = [cats EXCEPT
          !.sent = Cleaned(updated),
          !.calls = @ \cup {[n |-> n, kind |-> kind, name |-> name,
                             updated |-> updated, body |-> Cleaned(updated)]},
          !.pair = pair]

\* fetchCategories() with getCategories resolved
fetchCategories ==
  /\ LET Kept(c) == Len(c) > 0
     IN  cats' = [cats EXCEPT !.categories = SelectSeq(cats.server, Kept),
                              !.pair = Disturbed(@)]
  /\ UNCHANGED <<normVars, storeVars, appVars, otherThanCats>>

\* addCategory(name) up to its await of saveCategories
addCategory ==
  /\ \E name \in TypedNames :
       LET trimmed == Trim(name)
           updated == Append(cats.categories, trimmed)
           others == {c \in cats.calls : c.kind = "add" /\ c.name # trimmed}
           pair == IF cats.pair.names # {} /\ cats.pair.done # cats.pair.names
                   THEN Disturbed(cats.pair)
                   ELSE IF Cardinality(cats.calls) = 1 /\ others = cats.calls
                   THEN [names |-> {trimmed} \cup {c.name : c \in others},
                         done |-> {}, ok |-> TRUE]
                   ELSE NoPair
       IN  /\ Len(trimmed) > 0
           /\ ~Listed(cats.categories, trimmed)
           /\ SaveStarts("add", trimmed, updated, pair)
  /\ UNCHANGED <<normVars, storeVars, appVars, otherThanCats>>

\* editCategory(oldName, newName) up to its await of saveCategories
editCategory ==
  /\ \E i \in 1..Len(cats.categories), newName \in TypedNames :
       LET oldName == cats.categories[i]
           trimmed == Trim(newName)
           updated == [k \in 1..Len(cats.categories) |->
                         IF cats.categories[k] = oldName THEN trimmed
                         ELSE cats.categories[k]]
       IN  /\ Len(trimmed) > 0
           /\ ~(oldName # trimmed /\ Listed(cats.categories, trimmed))
           /\ SaveStarts("edit", trimmed, updated, Disturbed(cats.pair))
  /\ UNCHANGED <<normVars, storeVars, appVars, otherThanCats>>

\* removeCategory(name) up to its await of saveCategories
removeCategory ==
  /\ \E i \in 1..Len(cats.categories) :
       LET name == cats.categories[i]
           Other(c) == c # name
       IN  SaveStarts("remove", name, SelectSeq(cats.categories, Other),
                      Disturbed(cats.pair))
  /\ UNCHANGED <<normVars, storeVars, appVars, otherThanCats>>

\* what a resolved call sets as the hook's state
SetCategories(categories, call) == call.updated

\* the PUT of a call is answered: setCategories(updated)
saveCategoriesResolves ==
  /\ \E call \in cats.calls :
       cats' = [cats EXCEPT
         !.server = call.body,
         !.categories = SetCategories(@, call),
         !.calls = @ \ {call},
         !.pair = IF call.kind = "add" /\ call.name \in @.names \ @.done
                  THEN [@ EXCEPT !.done = @ \cup {call.name}]
                  ELSE Disturbed(@)]
  /\ UNCHANGED <<normVars, storeVars, appVars, otherThanCats>>

\* the PUT of a call fails: the error is logged and rethrown
saveCategoriesRejects ==
  /\ \E call \in cats.calls :
       cats' = [cats EXCEPT !.calls = @ \ {call}, !.pair = Disturbed(@)]
  /\ UNCHANGED <<normVars, storeVars, appVars, otherThanCats>>

\* ------------------------------------------------------------------------
\* Receipts.tsx: the list page
\* ------------------------------------------------------------------------

\* applyLocalOverrides keeping the backend's value where it has one
applyLocalOverrideBackendFirst(st, fault, r) ==
  LET id == CHOOSE i \in ReceiptIds : IdStr(i) = Get(r, "receiptId")
      override == getDraftOverride(st, fault, id).v
  IN  IF ~Truthy(override) THEN r
      ELSE Obj(Spread(SpreadOf(override), r.o))

\* applyLocalOverrides on one row
applyLocalOverride(st, fault, r) ==
  LET id == CHOOSE i \in ReceiptIds : IdStr(i) = Get(r, "receiptId")
      override == getDraftOverride(st, fault, id).v
  IN  IF ~Truthy(override) THEN r
      ELSE Obj(Spread(Spread(r.o, SpreadOf(override)),
             [f \in {"total", "vat", "vatRate", "date", "payee"} |->
                Coalesce(Get(override, f), Get(r, f))]))

\* a sequence listing a set of receipt ids
RECURSIVE SeqOf(_)
SeqOf(ids) ==
  IF ids = {} THEN <<>>
  ELSE LET id == CHOOSE i \in ids : TRUE IN <<id>> \o SeqOf(ids \ {id})

\* fetchReceipts(): getReceipts({limit: 1000}) resolved with the rows of the
\* receipts the backend holds, applyLocalOverrides, setReceiptsCache (the sort
\* orders the rows, the cache is keyed by id)
fetchReceipts ==
  /\ LET ids == SeqOf({id \in ReceiptIds : IsObj(backend[id])})
         data == [i \in 1..Len(ids) |-> normalizeReceipt(backend[ids[i]])]
         withLocalOverrides ==
           [i \in 1..Len(ids) |-> applyLocalOverride(storage, storageFault, data[i])]
     IN  receiptCache' = setReceiptsCache(withLocalOverrides)
  /\ receiptCache' # receiptCache
  /\ UNCHANGED <<backend, pageVars, storeVars, normVars, otherVars>>

\* ------------------------------------------------------------------------
\* loadForReview on stores of every content
\* ------------------------------------------------------------------------

\* list rows as fetchReceipts leaves them in the cache (typed as Receipt)
SnapshotRows(id) ==
  { Obj([receiptId |-> IdStr(id), status |-> EXTRACTED, total |-> Whole(50),
         payee |-> S1("A"), date |-> Date10, vat |-> Whole(5), vatRate |-> Bucket10]),
    Obj([receiptId |-> IdStr(id), payee |-> EmptyStr, total |-> Whole(0), vatRate |-> Bucket4]),
    Obj([receiptId |-> IdStr(id)]) }

\* forms that pass validateForm, as a user saves them
SavedForms ==
  { [date |-> Date14, total |-> Str(<<"5", "5">>), payee |-> S1("C"), vat |-> S1("2"),
     vatRate |-> Bucket22, categoryId |-> EmptyStr, notes |-> EmptyStr],
    [date |-> Date14, total |-> S1("0"), payee |-> Str(<<" ", "C">>), vat |-> Str(<<"0", ",", "5">>),
     vatRate |-> Bucket0, categoryId |-> EmptyStr, notes |-> S1("n")] }

\* a list fetch or an optimistic patch left this row for a receipt, or none
MergeSnapshot ==
  /\ loads = {}
  /\ \E id \in ReviewIds :
       \/ \E row \in SnapshotRows(id) : receiptCache' = (id :> row) @@ receiptCache
       \/ receiptCache' = [k \in (DOMAIN receiptCache) \ {id} |-> receiptCache[k]]
  /\ receiptCache' # receiptCache
  /\ UNCHANGED <<backend, pageVars, storeVars, normVars, otherVars>>

\* a draft save (of this tab or of another tab of the origin) left this
\* override for a receipt, or a confirm or delete removed it
MergeOverride ==
  /\ loads = {}
  /\ \E id \in ReviewIds :
       \/ \E fd \in SavedForms :
            /\ validateForm(fd)
            /\ storage' = After(storage,
                 setDraftOverride(storage, storageFault, id, payloadOf(fd, DRAFT)))
       \/ storage' = After(storage, clearDraftOverride(storage, storageFault, id))
  /\ storage' # storage
  /\ UNCHANGED <<storageFault, lastOp, appVars, normVars, otherVars>>

\* every payload shape may answer GET /receipts/{id}
AnyResponse(id) == FreshPayloads(id) \cup GetResponses(id)

MergeResolve ==
  fetchReceiptResolveWith([id \in ReviewIds |-> AnyResponse(id)])

\* ------------------------------------------------------------------------
\* Receipts.tsx: list fetches over every backend row and override
\* ------------------------------------------------------------------------
\* the rows the backend may hold for a receipt
ListedRecords(id) ==
  { Obj([receiptId |-> IdStr(id), status |-> DRAFT, payee |-> S1("B"), date |-> Date10,
         total |-> Whole(48), vat |-> Whole(9), vatRate |-> Bucket10,
         category |-> S1("c"), notes |-> S1("n")]),
    Obj([id |-> IdStr(id), status |-> CONFIRMED, vendor |-> S1("B"), amount |-> Whole(48)]),
    Null }

\* the overrides a save may have left: the draft of a valid form, a payload
\* with a category, a payload whose total is not a number
ListedPayloads ==
  {payloadOf(fd, DRAFT) : fd \in {f \in SavedForms : f.payee = S1("C")}}
  \cup { Obj([status |-> DRAFT, payee |-> S1("C"), category |-> Null, total |-> NaNv]),
         Obj([notes |-> EmptyStr, category |-> S1("d")]) }

\* the backend comes to hold another row for a receipt
ListBackend ==
  /\ \E id \in ReceiptIds : \E record \in ListedRecords(id) :
       /\ backend[id] # record
       /\ backend' = [backend EXCEPT ![id] = record]
  /\ UNCHANGED <<receiptCache, pageVars, storeVars, normVars, otherVars>>

\* a save leaves an override for a receipt, or removes it
ListOverride ==
  /\ \E id \in ReviewIds :
       \/ \E payload \in ListedPayloads :
            storage' = After(storage, setDraftOverride(storage, storageFault, id, payload))
       \/ storage' = After(storage, clearDraftOverride(storage, storageFault, id))
  /\ storage' # storage
  /\ UNCHANGED <<storageFault, lastOp, appVars, normVars, otherVars>>

\* fetchReceipts(), with what it read and what it set
ListFetch ==
  /\ LET ids == SeqOf({id \in ReceiptIds : IsObj(backend[id])})
         data == [i \in 1..Len(ids) |-> normalizeReceipt(backend[ids[i]])]
         withLocalOverrides ==
           [i \in 1..Len(ids) |-> applyLocalOverride(storage, storageFault, data[i])]
     IN  /\ receiptCache' = setReceiptsCache(withLocalOverrides)
         /\ listed' = [called |-> TRUE, ids |-> ids, data |-> data,
                       allReceipts |-> withLocalOverrides,
                       overrides |-> [id \in ReceiptIds |->
                                       getDraftOverride(storage, storageFault, id).v]]
  /\ UNCHANGED <<backend, pageVars, storeVars, normVars, otherThanListed>>

AppInit ==
  /\ receiptCache = <<>>
  /\ backend = [id \in ReceiptIds |-> UploadedRecord(id)]
  /\ reviewId = "none"
  /\ loading = TRUE
  /\ loads = {}
  /\ shown = NotShown
  /\ formData = InitialForm
  /\ save = NoSave
  /\ cacheOp = NoOp
  /\ race = NoRace
  /\ proc = ProcMounted
  /\ listed = NoCall
  /\ ynab = ExportInit
  /\ auth = AuthInit
  /\ cats = CategoriesInit

\* ------------------------------------------------------------------------
\* Specifications
\* ------------------------------------------------------------------------
Init == NormInit /\ StoreInit /\ AppInit

\* the normalizer applied to payloads of every shape
NextNorm == NormFresh \/ NormPut \/ NormWrap \/ Normalize
SpecNorm == Init /\ [][NextNorm]_vars

\* the normalizer on payloads with identity, status, image and text fields
\* and with values their parser does not read
NextFields == NormFresh \/ NormPutMore \/ Normalize
SpecFields == Init /\ [][NextFields]_vars

\* the value parsers
NextParse == ParseDate \/ ParseAmount \/ ParseRate
SpecParse == Init /\ [][NextParse]_vars

\* updateReceipt on every payload
NextPut == updateReceipt
SpecPut == Init /\ [][NextPut]_vars

\* the pages: Review (load, edit, save, delete) and Receipts (list)
Next ==
  \/ fetchReceiptStart \/ fetchReceiptResolve \/ fetchReceiptReject \/ LeaveReview
  \/ handleInputChange \/ handleSubmit \/ handleSubmitResolve \/ handleSubmitReject
  \/ handleDelete \/ fetchReceipts
Spec == Init /\ [][Next]_vars

\* loadForReview over every content of the cache, the override store and
\* the backend answer
NextMerge ==
  \/ MergeSnapshot \/ MergeOverride \/ fetchReceiptStart \/ MergeResolve
  \/ fetchReceiptReject \/ LeaveReview
SpecMerge == Init /\ [][NextMerge]_vars

\* the Export page in YNAB mode
NextExport ==
  \/ ExportFetch \/ ExportSetMode \/ handleSelectReceipt \/ handleExportYNAB
  \/ ExportYnabResolves \/ ExportYnabRejects \/ ExportMarkResolves \/ ExportMarkRejects
SpecExport == Init /\ [][NextExport]_vars

\* logins and OAuth callbacks
NextAuth == setOAuthFlow \/ generateAndSaveState \/ clearAuthSession \/ handleCallback
SpecAuth == Init /\ [][NextAuth]_vars

\* the category dialogs
NextCategories ==
  \/ fetchCategories \/ addCategory \/ editCategory \/ removeCategory
  \/ saveCategoriesResolves \/ saveCategoriesRejects
SpecCategories == Init /\ [][NextCategories]_vars

\* the list page over every backend row and override
NextList == ListBackend \/ ListOverride \/ ListFetch
SpecList == Init /\ [][NextList]_vars

\* the Processing page polling
NextPoll == ProcTimerFires \/ ProcCheckResolves \/ ProcCheckRejects \/ handleRetry
SpecPoll == Init /\ [][NextPoll]_vars

\* the pages, and a confirmed record changing on the backend
NextDrift == Next \/ BackendChange
SpecDrift == Init /\ [][NextDrift]_vars

\* a save taken write by write, with reloads in between
NextCrash ==
  \/ fetchReceiptStart \/ fetchReceiptResolve \/ handleInputChange \/ handleSubmit
  \/ handleSubmitPut \/ handleSubmitSetOverride \/ handleSubmitUpdateCache
  \/ handleSubmitFinish \/ handleSubmitReject \/ fetchReceipts \/ Reload
SpecCrash == Init /\ [][NextCrash]_vars

\* the Review page under route changes while loads are in flight
NextRace == RouteTo \/ RaceResolve \/ LeaveReview \/ fetchReceipts
SpecRace == Init /\ [][NextRace]_vars

\* the cache under lists and patches of every content
NextCache == CacheSet \/ CachePatch
SpecCache == Init /\ [][NextCache]_vars

\* the override store on a working localStorage
NextStore == StoreSet \/ StoreClear
SpecStore == Init /\ [][NextStore]_vars

\* the override store on a localStorage that may be corrupt or may throw
NextFaulty == StoreSet \/ StoreClear \/ StoreCorrupt \/ StoreFault
SpecFaulty == Init /\ [][NextFaulty]_vars

\* ------------------------------------------------------------------------
\* Properties of the override store
\* ------------------------------------------------------------------------

\* the override a patch stands for: its defined DraftOverride fields
OverrideOf(patch) ==
  Obj([f \in {g \in OverrideFields : Get(patch, g) # Undef} |-> patch.o[f]])

GetNow(id) == getDraftOverride(storage, storageFault, id)

\* C5: after set(id, patch) the store returns exactly the override fields of
\* that patch for id, whatever was stored for id before (nothing of an
\* earlier patch survives), and after clear(id) it returns undefined.
C5_SetReplacesClearRemoves ==
  /\ lastOp.op = "set" => GetNow(lastOp.id) = Ok(OverrideOf(lastOp.patch))
  /\ lastOp.op = "clear" => GetNow(lastOp.id) = Ok(Undef)

\* a set that follows a set of the same id whose patch carried a field the
\* new patch does not carry; the field is gone
C5_Witness ==
  /\ lastOp.op = "set" /\ lastOp.prev = "set" /\ lastOp.prevId = lastOp.id
  /\ \E f \in OverrideFields :
       /\ Get(lastOp.prevPatch, f) # Undef
       /\ Get(lastOp.patch, f) = Undef
       /\ Get(lastOp.before.v.o[lastOp.id], f) # Undef
       /\ Get(GetNow(lastOp.id).v, f) = Undef

\* C6: clear is idempotent (clearing again changes nothing), clearing an id
\* without an entry leaves the stored item as it was, and set or clear of
\* one id leaves the override of every other id as it was.
C6_ClearIdempotentLocal ==
  /\ lastOp.op = "clear" =>
       After(storage, clearDraftOverride(storage, storageFault, lastOp.id)) = storage
  /\ (lastOp.op = "clear"
        /\ getDraftOverride(lastOp.before, lastOp.fault, lastOp.id) = Ok(Undef)) =>
       storage = lastOp.before
  /\ lastOp.op \in {"set", "clear"} =>
       \A other \in ReceiptIds \ {lastOp.id} :
         GetNow(other) = getDraftOverride(lastOp.before, lastOp.fault, other)

\* a clear of an id that had an entry, while another id keeps its override
C6_Witness ==
  /\ lastOp.op = "clear"
  /\ getDraftOverride(lastOp.before, lastOp.fault, lastOp.id) # Ok(Undef)
  /\ \E other \in ReceiptIds \ {lastOp.id} :
       /\ GetNow(other) # Ok(Undef)
       /\ GetNow(other) = getDraftOverride(lastOp.before, lastOp.fault, other)

\* the stored item cannot be read as a map of overrides
Unreadable(st, fault) ==
  \/ fault.read
  \/ st.k \in {"missing", "empty", "invalid"}
  \/ st.k = "json" /\ ~IsObjectLike(st.v)

\* C7: on a missing, unparseable or non-object item, or a throwing
\* localStorage, getDraftOverride returns undefined for every id, and no call
\* of getDraftOverride, setDraftOverride or clearDraftOverride raises.
C7_CorruptStorageIsEmpty ==
  /\ \A id \in ReceiptIds :
       /\ ~GetNow(id).threw
       /\ Unreadable(storage, storageFault) => GetNow(id) = Ok(Undef)
  /\ lastOp.op \in {"set", "clear"} => ~lastOp.raised

\* a set made while the item was not JSON and setItem threw
C7_Witness ==
  /\ lastOp.op = "set" /\ ~lastOp.raised
  /\ lastOp.before = Invalid /\ lastOp.fault.write
  /\ storage = Invalid

\* ------------------------------------------------------------------------
\* Properties of the normalizer
\* ------------------------------------------------------------------------

\* the object a call normalized: the first element of a non-empty array
DataOf(in) == IF IsArr(in) /\ Len(in.a) > 0 THEN in.a[1] ELSE in

Returns == normOut.called /\ ~normOut.out.threw

\* the four sections in precedence order; a section that is missing, or the
\* extracted section when it is the root itself, is undefined
SectionsOf(obj) ==
  << confirmedFieldsOf(obj), draftFieldsOf(obj), obj,
     IF extractedFieldsOf(obj) = obj THEN Undef ELSE extractedFieldsOf(obj) >>

\* the section holds a non-empty value under one of the names
Holds(sec, names) == \E i \in 1..Len(names) : NonEmpty(Get(sec, names[i]))

ParsedFields == {"date", "total", "payee", "vat", "vatRate"}

NamesOf(f) ==
  CASE f = "date" -> DateNames
    [] f = "total" -> TotalNames
    [] f = "payee" -> PayeeNames
    [] f = "vat" -> VatNames
    [] f = "vatRate" -> VatRateNames
    [] f = "category" -> CategoryNames
    [] f = "notes" -> NotesNames

\* the canonical form of a raw value of a field
CanonOf(f, v) ==
  CASE f = "date" -> formatDate(v)
    [] f = "total" -> parseNumber(v)
    [] f = "payee" -> OrElse(v, EmptyStr)
    [] f = "vat" -> parseNumber(v)
    [] f = "vatRate" -> OrElse(parseVatRate(v), Bucket22)
    [] f = "category" -> OrElse(v, Str(<<"G", "e", "n", "e", "r", "a", "l">>))
    [] f = "notes" -> OrElse(v, EmptyStr)

C9_InvalidRecord ==
  normOut.called =>
    /\ ~IsObjectLike(normOut.in) => normOut.out.threw
    /\ normOut.in = Arr(<<>>) => normOut.out.threw
    /\ (IsArr(normOut.in) /\ Len(normOut.in.a) > 0) =>
         normOut.out = normalizeReceiptResponse(normOut.in.a[1])

\* C10: the vatRate of every returned record is one of the five buckets.
C10_VatRateInBuckets == Returns => normOut.out.rec.vatRate \in VAT_RATES

\* /^\d+$/.test(value.trim())
IsCleanInteger(v) == IsStr(v) /\ Len(Trim(v.s)) > 0 /\ AllDigits(Trim(v.s))

\* C10 (amended): a non-zero number is returned as its decimal string and a
\* clean integer string verbatim (trimmed); every other raw rate, free text
\* included, gives one of the five buckets.
C10_VatRateBucketOrVerbatim ==
  Returns =>
    LET v == getField(DataOf(normOut.in), VatRateNames)
        out == normOut.out.rec.vatRate
    IN  IF IsNum(v) /\ Truthy(v) THEN out = Str(NumToString(v))
        ELSE IF IsCleanInteger(v) THEN out = Str(Trim(v.s))
        ELSE out \in VAT_RATES

\* the raw rate is the free text "3%", bucketed to "4"
C10_Witness ==
  /\ Returns
  /\ getField(DataOf(normOut.in), VatRateNames) = Str(<<"3", "%">>)
  /\ normOut.out.rec.vatRate = Bucket4

\* the lifecycle stages of a receipt
LifecycleStages ==
  { Str(<<"C", "R", "E", "A", "T", "E", "D">>), EXTRACTED, DRAFT,
    Str(<<"P", "E", "N", "D", "I", "N", "G", "_", "R", "E", "V", "I", "E", "W">>),
    CONFIRMED, Str(<<"F", "A", "I", "L", "E", "D">>) }

\* C11: the status of every returned record is one of CREATED, EXTRACTED,
\* DRAFT, PENDING_REVIEW, CONFIRMED, FAILED, also when the payload carries no
\* status.
C11_StatusInLifecycle == Returns => normOut.out.rec.status \in LifecycleStages

\* C12: normalizing the returned record again, as a raw payload, returns the
\* same record.
C12_Idempotent ==
  Returns => normalizeReceiptResponse(Obj(normOut.out.rec)) = normOut.out

\* no section of the payload holds a non-empty value under a name of field f
Unheld(obj, f) == \A i \in 1..4 : ~Holds(SectionsOf(obj)[i], NamesOf(f))

DefaultedFields == {"date", "payee", "category", "notes", "total", "vat", "vatRate"}

\* C13: a field that no section holds a non-empty value for takes its
\* default: the empty string for date, payee, category and notes, null for
\* total and vat, "22" for vatRate.
C13_DefaultsEmptyNull22 ==
  Returns =>
    \A f \in DefaultedFields :
      Unheld(DataOf(normOut.in), f) =>
        normOut.out.rec[f] =
          (CASE f \in {"date", "payee", "category", "notes"} -> EmptyStr
             [] f \in {"total", "vat"} -> Null
             [] f = "vatRate" -> Bucket22)

General == Str(<<"G", "e", "n", "e", "r", "a", "l">>)

\* C13 (amended): a field that no section holds a non-empty value for takes
\* its default: the empty string for date, payee and notes, "General" for
\* category, null for total and vat, "22" for vatRate.
C13_DefaultsWithGeneral ==
  Returns =>
    \A f \in DefaultedFields :
      Unheld(DataOf(normOut.in), f) =>
        normOut.out.rec[f] =
          (CASE f \in {"date", "payee", "notes"} -> EmptyStr
             [] f = "category" -> General
             [] f \in {"total", "vat"} -> Null
             [] f = "vatRate" -> Bucket22)

\* the payload holds total only as the empty string and payee with a value:
\* total is null, category "General", payee is kept
C13_Witness ==
  /\ Returns
  /\ LET obj == DataOf(normOut.in)
     IN  /\ Get(obj, "total") = EmptyStr
         /\ Unheld(obj, "total") /\ Unheld(obj, "category") /\ ~Unheld(obj, "payee")
  /\ normOut.out.rec.total = Null
  /\ normOut.out.rec.category = General
  /\ normOut.out.rec.payee # EmptyStr

\* the first value, in the order of the paths, that is neither undefined,
\* null nor the empty string; undefined when there is none
FirstInOrder(obj, paths) ==
  IF \E i \in 1..Len(paths) : NonEmpty(WalkPath(obj, paths[i]))
  THEN LET i == CHOOSE k \in 1..Len(paths) :
                  /\ NonEmpty(WalkPath(obj, paths[k]))
                  /\ \A j \in 1..(k - 1) : ~NonEmpty(WalkPath(obj, paths[j]))
       IN  WalkPath(obj, paths[i])
  ELSE Undef

\* C14: within a section the first name, in the order canonical name then
\* aliases, whose value is neither null, undefined nor empty gives the field;
\* id, status and imageUrl are looked up the same way at top level.
C14_AliasOrder ==
  Returns =>
    LET obj == DataOf(normOut.in)
        secs == SectionsOf(obj)
        rec == normOut.out.rec
    IN  /\ \A f \in DefaultedFields, i \in 1..4 :
             (Holds(secs[i], NamesOf(f)) /\ \A j \in 1..(i - 1) : ~Holds(secs[j], NamesOf(f)))
               => rec[f] = CanonOf(f, FirstInOrder(secs[i], Keys(NamesOf(f))))
        /\ rec.id = OrElse(FirstInOrder(obj, IdPaths), EmptyStr)
        /\ rec.status = OrElse(FirstInOrder(obj, StatusPaths), PENDING)
        /\ rec.imageUrl = OrElse(FirstInOrder(obj, ImagePaths), Undef)

HasDigit(s) == \E i \in 1..Len(s) : IsDigit(s[i])

\* the raw value of a parsed field is of a type, or a text, its parser does
\* not read (the text Infinity is read by the amount parser)
Malformed(f, v) ==
  /\ NonEmpty(v)
  /\ IF IsStr(v) THEN /\ ~HasDigit(v.s)
                      /\ f \in {"total", "vat"} => parseFloat(v.s).t # "Infinity"
     ELSE f = "date" \/ ~IsNum(v)

\* the payload without the field: its names removed from the root and from
\* every section
Without(obj, f) ==
  LET names == {NamesOf(f)[i] : i \in 1..Len(NamesOf(f))}
      Strip(o) == [k \in (DOMAIN o) \ names |-> o[k]]
  IN  Obj([k \in DOMAIN Strip(obj.o) |->
             IF IsObj(obj.o[k]) THEN Obj(Strip(obj.o[k].o)) ELSE obj.o[k]])

RecordFields ==
  {"id", "status", "imageUrl", "date", "total", "payee", "vat", "vatRate", "category", "notes"}

\* C15: normalize returns a record for every object; a date, total, vat or
\* vatRate whose raw value is of the wrong type or unparseable comes out as
\* '' / null / "22", and every other field comes out as it does for the
\* payload without that field.
C15_ParsersTotal ==
  (normOut.called /\ IsObj(normOut.in)) =>
    /\ ~normOut.out.threw
    /\ \A f \in {"date", "total", "vat", "vatRate"} :
         Malformed(f, getField(normOut.in, NamesOf(f))) =>
           /\ normOut.out.rec[f] =
                (CASE f = "date" -> EmptyStr
                   [] f \in {"total", "vat"} -> Null
                   [] f = "vatRate" -> Bucket22)
           /\ \A g \in RecordFields \ {f} :
                normOut.out.rec[g] = normalizeReceiptResponse(Without(normOut.in, f)).rec[g]

\* the date is the text "not-a-date" and the payee is "A": the date comes
\* out empty, the payee as it is
C15_Witness ==
  /\ normOut.called /\ IsObj(normOut.in)
  /\ Get(normOut.in, "date") = Str(<<"n", "o", "t", "-", "a", "-", "d", "a", "t", "e">>)
  /\ Get(normOut.in, "payee") = S1("A")
  /\ normOut.out.rec.date = EmptyStr
  /\ normOut.out.rec.payee = S1("A")

\* ------------------------------------------------------------------------
\* Properties of the value parsers
\* ------------------------------------------------------------------------
Called(fn) == parsed.called /\ parsed.fn = fn

\* C16: the date of a returned record is the empty string or a day of the
\* calendar written YYYY-MM-DD.
C16_DateIsCalendarDate ==
  Called("formatDate") =>
    (parsed.rec.date = EmptyStr \/ IsCalendarDate(parsed.rec.date.s))

\* s is D sep M sep YYYY with one or two digits for D and for M, split after
\* the i-th and before the last four characters
DayFirstAt(s, sep, i) ==
  /\ i \in {1, 2} /\ Len(s) - i - 6 \in {1, 2}
  /\ AllDigits(SubSeq(s, 1, i)) /\ s[i + 1] = sep
  /\ AllDigits(SubSeq(s, i + 2, Len(s) - 5)) /\ s[Len(s) - 4] = sep
  /\ AllDigits(SubSeq(s, Len(s) - 3, Len(s)))

TwoDigits(s) == IF Len(s) = 1 THEN <<"0">> \o s ELSE s

\* C17: D-M-YYYY and D/M/YYYY are read day first and written YYYY-MM-DD with
\* day and month padded to two digits; a YYYY-MM-DD string is returned as it
\* is; an empty value, a value that is no string and a text without a date
\* give the empty string.
C17_DateParser ==
  Called("formatDate") =>
    LET v == parsed.in
        out == parsed.out
    IN  /\ IsStr(v) =>
             /\ \A sep \in {"-", "/"}, i \in {1, 2} :
                  DayFirstAt(v.s, sep, i) =>
                    out = Str(SubSeq(v.s, Len(v.s) - 3, Len(v.s)) \o <<"-">>
                              \o TwoDigits(SubSeq(v.s, i + 2, Len(v.s) - 5)) \o <<"-">>
                              \o TwoDigits(SubSeq(v.s, 1, i)))
             /\ ( /\ Len(v.s) = 10 /\ v.s[5] = "-" /\ v.s[8] = "-"
                  /\ \A k \in (1..10) \ {5, 8} : IsDigit(v.s[k]) ) => out = v
             /\ ~HasDigit(v.s) => out = EmptyStr
        /\ ~IsStr(v) => out = EmptyStr

\* "1/2/2025" is read as the first of February
C17_Witness ==
  /\ Called("formatDate")
  /\ parsed.in = Str(<<"1", "/", "2", "/", "2", "0", "2", "5">>)
  /\ parsed.out = Str(<<"2", "0", "2", "5", "-", "0", "2", "-", "0", "1">>)

\* the number a text holds from its first digit on, in units of 1/Scale
LeadingRate(s) ==
  LET p == CHOOSE i \in 1..Len(s) : IsDigit(s[i]) /\ \A j \in 1..(i - 1) : ~IsDigit(s[j])
  IN  parseFloat(Drop(s, p - 1)).n

\* C18: on free text the first numeric token decides the bucket: at most 2
\* gives "0", at most 4.5 "4", at most 7 "5", at most 15 "10", anything above
\* "22"; a string of digits only is returned as it is; a text without a
\* numeric token gives the empty string.
C18_VatRateBucketer ==
  (Called("parseVatRate") /\ IsStr(parsed.in)) =>
    LET s == parsed.in.s
        out == parsed.out
    IN  IF ~HasDigit(s) THEN out = EmptyStr
        ELSE IF AllDigits(s) THEN out = parsed.in
        ELSE IF AllDigits(Trim(s)) THEN out = Str(Trim(s))
        ELSE LET rate == LeadingRate(s)
             IN  out = (IF rate <= 200 THEN Bucket0
                        ELSE IF rate <= 450 THEN Bucket4
                        ELSE IF rate <= 700 THEN Bucket5
                        ELSE IF rate <= 1500 THEN Bucket10
                        ELSE Bucket22)

\* "A 4.51%" lies just above 4.5 and gives "5"
C18_Witness ==
  /\ Called("parseVatRate")
  /\ parsed.in = Str(<<"A", " ", "4", ".", "5", "1", "%">>)
  /\ parsed.out = Bucket5

\* C19: a number is returned as it is, a string is parsed after its comma
\* is replaced by a period, and whatever is not a finite number then gives
\* null: text without a number, an empty value, a value that is neither
\* string nor number, an infinite value.
C19_AmountParser ==
  Called("parseNumber") =>
    LET v == parsed.in
        out == parsed.out
    IN  /\ v.t = "number" => out = v
        /\ IsStr(v) =>
             LET num == parseFloat(ReplaceFirst(v.s, ",", "."))
             IN  out = (IF num.t = "number" THEN num ELSE Null)
        /\ (v.t # "number" /\ ~IsStr(v)) => out = Null

\* ------------------------------------------------------------------------
\* Properties of updateReceipt
\* ------------------------------------------------------------------------
Twins ==
  { <<"payee", "merchant">>, <<"date", "receipt_date">>,
    <<"total", "total_amount">>, <<"vat", "vat_amount">>,
    <<"vatRate", "vat_rate">>, <<"ynabExportedAt", "ynab_exported_at">> }

\* C20: in the body that is PUT, a field of the payload that is defined is
\* under its camelCase key and under its snake_case twin with one and the
\* same value, and a field that is undefined is under neither.
C20_BothKeysOrNeither ==
  sent.called =>
    \A pair \in Twins :
      LET v == Get(sent.payload, pair[1])
      IN  IF v # Undef
          THEN /\ HasKey(sent.body, pair[1]) /\ HasKey(sent.body, pair[2])
               /\ sent.body.o[pair[1]] = sent.body.o[pair[2]]
               /\ sent.body.o[pair[1]] = Jsonify(v)
          ELSE ~HasKey(sent.body, pair[1]) /\ ~HasKey(sent.body, pair[2])

\* a payload with a payee and with a total that is undefined
C20_Witness ==
  /\ sent.called
  /\ Get(sent.payload, "payee") = S1("A")
  /\ HasKey(sent.payload, "total") /\ Get(sent.payload, "total") = Undef
  /\ Get(sent.body, "merchant") = S1("A")
  /\ ~HasKey(sent.body, "total") /\ ~HasKey(sent.body, "total_amount")

\* ------------------------------------------------------------------------
\* Properties of the List Snapshot Cache
\* ------------------------------------------------------------------------

\* C21: after setReceiptsCache(L) the cache answers for exactly the ids of
\* the rows of L, with a row of L, and nothing of the cache before is left;
\* updateCachedReceipt(id, u) puts the fields of u onto the entry of id,
\* keeps the other fields of that entry and every other entry, and makes no
\* entry where there was none.
C21_CacheReplacedAndPatched ==
  /\ cacheOp.op = "set" =>
       \A id \in ReceiptIds :
         LET L == cacheOp.receipts
             hits == {i \in 1..Len(L) :
                        OrElse(Get(L[i], "receiptId"),
                               OrElse(Get(L[i], "id"), Get(L[i], "receipt_id"))) = IdStr(id)}
         IN  IF hits = {} THEN getCachedReceipt(receiptCache, id) = Undef
             ELSE getCachedReceipt(receiptCache, id) \in {L[i] : i \in hits}
  /\ cacheOp.op = "patch" =>
       LET old == cacheOp.before
           u == cacheOp.updates.o
       IN  IF cacheOp.id \in DOMAIN old
           THEN /\ DOMAIN receiptCache = DOMAIN old
                /\ \A id \in (DOMAIN old) \ {cacheOp.id} : receiptCache[id] = old[id]
                /\ LET row == receiptCache[cacheOp.id].o
                       was == old[cacheOp.id].o
                   IN  /\ DOMAIN row = (DOMAIN was) \cup (DOMAIN u)
                       /\ \A k \in DOMAIN u : row[k] = u[k]
                       /\ \A k \in (DOMAIN was) \ (DOMAIN u) : row[k] = was[k]
           ELSE receiptCache = old

\* a cached row with payee "A" is patched with a status, and a receipt that
\* is not cached stays out of the cache
C21_Witness ==
  /\ cacheOp.op = "patch"
  /\ cacheOp.id \in DOMAIN cacheOp.before
  /\ cacheOp.updates = Obj([status |-> CONFIRMED])
  /\ Get(receiptCache[cacheOp.id], "payee") = S1("A")
  /\ Get(receiptCache[cacheOp.id], "status") = CONFIRMED
  /\ \E id \in ReceiptIds : id \notin DOMAIN receiptCache

\* ------------------------------------------------------------------------
\* Properties of the error paths
\* ------------------------------------------------------------------------

\* the fetchReceipt calls in flight, mounted or not
CallsOf(ls) == {[l EXCEPT !.live = TRUE] : l \in ls}

\* a step of fetchReceipt: a call starts, or its getReceipt settles
LoadStep == CallsOf(loads') # CallsOf(loads)

\* a step of handleSubmit up to its PUT
SubmitStep == save' # save /\ save'.phase \in {"pending", "invalid"}

\* C23: a load writes nothing to the backend, whether getReceipt resolves
\* or rejects (the records stay, no PUT is issued), and a save of a form
\* that fails validation issues no PUT and leaves the backend, the override
\* store and the cache as they are.
C23_NoWriteOnErrorPaths ==
  [][ /\ LoadStep => (backend' = backend /\ save' = save)
      /\ (SubmitStep /\ ~validateForm(formData)) =>
            /\ save'.phase = "invalid"
            /\ backend' = backend /\ storage' = storage /\ receiptCache' = receiptCache
      /\ save.phase = "invalid" => save'.phase \in {"invalid", "pending"}
    ]_vars

\* a load has failed or succeeded and a save was refused by validateForm
C23_Witness ==
  /\ save.phase = "invalid" /\ reviewId # "none" /\ shown.set
  /\ backend = [id \in ReceiptIds |-> UploadedRecord(id)]
  /\ storage = Missing

\* ------------------------------------------------------------------------
\* Properties of a save that is interrupted
\* ------------------------------------------------------------------------

\* no handleSubmit is between its PUT and its last write
NoSaveRunning == save.phase \notin {"pending", "applied", "override", "cache"}

\* C24: once a confirm PUT has succeeded for a receipt (the backend holds it
\* as CONFIRMED) the override store holds no entry for it, also after a
\* reload or crash between the writes of the confirm.
C24_ConfirmedHasNoOverride ==
  NoSaveRunning =>
    \A id \in ReceiptIds :
      Get(backend[id], "status") = CONFIRMED =>
        getDraftOverride(storage, storageFault, id).v = Undef

\* C25: a load of a confirmed receipt that is answered with the backend's
\* record shows the total the backend holds, also when the total was changed
\* on the backend after the confirm.
C25_BackendAuthoritative ==
  (shown.set /\ shown.response = backend[shown.id]
     /\ Get(backend[shown.id], "status") = CONFIRMED
     /\ Get(backend[shown.id], "total") = ServerTotal)
    => shown.receipt.total = ServerTotal

\* ------------------------------------------------------------------------
\* Properties of the list page
\* ------------------------------------------------------------------------

\* the fields an override gives a value
DefinedIn(override) ==
  {f \in OverrideFields : Get(override, f) # Undef /\ Get(override, f) # Null}

\* C27: after a list fetch every row whose receipt has an override shows
\* the override's value in each field the override defines and the backend's
\* row in the others, a row without an override is the row getReceipts
\* returned, and the cache holds exactly these rows.
C27_ListShowsOverrides ==
  listed.called =>
    /\ \A i \in 1..Len(listed.ids) :
         LET id == listed.ids[i]
             row == listed.allReceipts[i]
             override == listed.overrides[id]
         IN  /\ IF override = Undef THEN row = listed.data[i]
                ELSE /\ \A f \in DefinedIn(override) : Get(row, f) = Get(override, f)
                     /\ \A k \in (DOMAIN listed.data[i].o) \ (DOMAIN override.o) :
                          Get(row, k) = Get(listed.data[i], k)
             /\ getCachedReceipt(receiptCache, id) = row
    /\ DOMAIN receiptCache = {listed.ids[i] : i \in 1..Len(listed.ids)}

\* the backend holds r1 with payee "B" and total 48, the override of r1
\* says payee "C" and total 55, and r2 has no override
C27_Witness ==
  /\ listed.called /\ Len(listed.ids) = 2
  /\ Get(backend["r1"], "payee") = S1("B") /\ Get(backend["r1"], "total") = Whole(48)
  /\ Get(listed.overrides["r1"], "payee") = S1("C")
  /\ Get(receiptCache["r1"], "payee") = S1("C")
  /\ Get(receiptCache["r1"], "total") = Whole(55)
  /\ Get(receiptCache["r1"], "category") = S1("c")
  /\ listed.overrides["r2"] = Undef /\ IsObj(backend["r2"])

\* ------------------------------------------------------------------------
\* Properties of the Export page
\* ------------------------------------------------------------------------

\* C28: no receipt is sent to YNAB twice: YNAB holds at most one
\* transaction for each receipt.
C28_ExportedOnce == \A id \in ReceiptIds : ynab.created[id] <= 1

\* ------------------------------------------------------------------------
\* Properties of the OAuth callback
\* ------------------------------------------------------------------------

\* C29: a callback saves a session only when its state parameter equals
\* the state saved for this login attempt, and a verification consumes
\* the saved state.
C29_SessionOnlyWithMatchingState ==
  auth.last.called =>
    /\ auth.last.saved # "none" =>
         (auth.last.state \in OAuthStates /\ auth.last.state = auth.last.savedState)
    /\ auth.last.verified => auth.savedState = NoParam

\* ------------------------------------------------------------------------
\* Properties of the category hook
\* ------------------------------------------------------------------------

\* C30: when two addCategory calls with distinct names were in flight
\* together and both saves succeeded, the local list and the array last
\* sent to the backend contain both names.
C30_BothAddsKept ==
  (cats.pair.ok /\ cats.pair.names # {} /\ cats.pair.done = cats.pair.names) =>
    \A name \in cats.pair.names :
      Listed(cats.categories, name) /\ Listed(cats.sent, name)

\* ------------------------------------------------------------------------
\* Properties of the Processing page
\* ------------------------------------------------------------------------

\* C26: polling ends: from 'processing' at most maxPolls status checks are
\* made before the page is 'ready' or 'error', and in 'ready' and 'error'
\* neither a timer nor a check is pending.
C26_PollingBounded ==
  /\ proc.checks <= maxPolls
  /\ proc.status \in {"ready", "error"} => proc.phase = "idle"

\* ------------------------------------------------------------------------
\* Properties of loads in flight
\* ------------------------------------------------------------------------

\* the page shows the record of load l
ShowsLoad(l) ==
  /\ shown.set /\ shown.id = l.id
  /\ shown.cachedReceipt = l.cachedReceipt /\ shown.localOverride = l.localOverride
  /\ shown.receipt = loadForReview(l.cachedReceipt, l.localOverride, shown.response).rec

\* two loads were in flight at once and both have resolved, the page is open
BothSettled == race.both /\ loads = {} /\ reviewId # "none"

\* C22: when two loads of the review page were in flight at once, the
\* record shown after both have resolved is the one of the load that resolved
\* last.
C22_LastResolvedShown == BothSettled => ShowsLoad(race.last)

\* C22 (amended): of the loads the mounted page started, the one that
\* resolved last is shown, and a load of a page that was left shows nothing.
C22_LastResolvedOfMountedShown ==
  BothSettled =>
    IF race.lastMine = NoLoad THEN ~shown.set ELSE ShowsLoad(race.lastMine)

\* the route went from r1 to r2, the load of r2 resolved first and the load
\* of r1 last: the page of r2 shows r1
C22_Witness ==
  /\ BothSettled /\ reviewId = "r2"
  /\ race.last.n = 1 /\ race.last.id = "r1" /\ race.last.live
  /\ shown.set /\ shown.id = "r1"

\* ------------------------------------------------------------------------
\* Properties of the Review page
\* ------------------------------------------------------------------------

\* the payload stores its fields at top level only: it has no confirmed and
\* no draft section
Flat(response) ==
  /\ IsObj(response)
  /\ ~Truthy(confirmedFieldsOf(response))
  /\ ~Truthy(draftFieldsOf(response))

\* C1: for payee, date, total, vat and vatRate the record loaded from a flat
\* backend payload carries the override's value when that is non-empty, else
\* the list snapshot's when that is non-empty, else the value the payload
\* stores at top level (each in its canonical form).
C1_OverrideSnapshotFresh ==
  (shown.set /\ Flat(shown.response)) =>
    \A f \in ParsedFields :
      LET o == Get(shown.localOverride, f)
          c == Get(shown.cachedReceipt, f)
      IN  IF NonEmpty(o) THEN shown.receipt[f] = CanonOf(f, o)
          ELSE IF NonEmpty(c) THEN shown.receipt[f] = CanonOf(f, c)
          ELSE Holds(shown.response, NamesOf(f)) =>
                 shown.receipt[f] = CanonOf(f, FirstNonEmpty(shown.response, NamesOf(f)))

\* snapshot total 50, override total 55, stale total_amount 48: total is 55
C1_Witness ==
  /\ shown.set
  /\ Get(shown.cachedReceipt, "total") = Whole(50)
  /\ Get(shown.localOverride, "total") = Whole(55)
  /\ Get(shown.response, "total_amount") = Whole(48)
  /\ Flat(shown.response)
  /\ shown.receipt.total = Whole(55)

\* C2: whatever the shape of the backend payload, the loaded record shows the
\* override's value for every field the override holds a non-empty value for.
C2_OverrideNeverLost ==
  shown.set =>
    \A f \in ParsedFields :
      NonEmpty(Get(shown.localOverride, f)) =>
        shown.receipt[f] = CanonOf(f, Get(shown.localOverride, f))

\* a handleSubmit call settles in this step
SaveSucceeds == save.phase = "pending" /\ save'.phase = "ok"
SaveFails == save.phase = "pending" /\ save'.phase = "failed"

\* after the step the override of the saved receipt is the saved payload
OverrideHoldsSaved ==
  getDraftOverride(storage', storageFault', save.id) = Ok(OverrideOf(save.payload))

\* after the step the cached row of the saved receipt, if any, carries the
\* saved fields
CacheHoldsSaved ==
  save.id \in DOMAIN receiptCache' =>
    \A f \in DOMAIN cacheUpdateOf(save.payload).o :
      Get(receiptCache'[save.id], f) = save.payload.o[f]

\* C3: every save of a valid form leaves the saved values in the override
\* store and in the cached row, whether the PUT succeeds or fails (a
\* successful confirm then clears the override).
C3_SaveWritesRegardlessOfPut ==
  [][(SaveSucceeds \/ SaveFails) =>
       /\ CacheHoldsSaved
       /\ ~(SaveSucceeds /\ save.status = CONFIRMED) => OverrideHoldsSaved]_vars

\* C3 (amended): the stores are written after the PUT and only when it
\* succeeded: a successful draft save leaves the saved values in the override
\* and in the cached row, a successful confirm leaves them in the cached row
\* and no override; a failed PUT leaves the override store and the cache as
\* they were.
C3_SaveWritesAfterSuccessfulPut ==
  [][/\ SaveSucceeds =>
          /\ CacheHoldsSaved
          /\ save.status = DRAFT => OverrideHoldsSaved
          /\ save.status = CONFIRMED =>
               getDraftOverride(storage', storageFault', save.id) = Ok(Undef)
     /\ SaveFails => (storage' = storage /\ receiptCache' = receiptCache)]_vars

\* the PUT of a valid form failed; neither the override nor the cached row
\* holds the total the user tried to save
C3_Witness ==
  /\ save.phase = "failed"
  /\ GetNow(save.id) # Ok(OverrideOf(save.payload))
  /\ save.id \in DOMAIN receiptCache
  /\ Get(receiptCache[save.id], "total") # save.payload.o.total

\* C4: after a confirm whose PUT succeeded the override of the receipt is
\* gone, and a load started afterwards reads no override and shows, for each
\* field the backend answer resolves to the confirmed value, that value.
C4_ConfirmClearsOverride ==
  /\ (save.phase = "ok" /\ save.status = CONFIRMED) => GetNow(save.id) = Ok(Undef)
  /\ (shown.set /\ shown.conf # Undef) =>
       /\ shown.localOverride = Undef
       /\ \A f \in ParsedFields :
            CanonOf(f, getField(shown.response, NamesOf(f))) = CanonOf(f, shown.conf.o[f])
              => shown.receipt[f] = CanonOf(f, shown.conf.o[f])

\* total 55 was confirmed, the backend answers with its record holding 55,
\* and the load after the confirm shows 55
C4_Witness ==
  /\ shown.set /\ shown.conf # Undef
  /\ shown.conf.o.total = Whole(55)
  /\ shown.response = backend[shown.id]
  /\ Get(shown.response, "total") = Whole(55)
  /\ shown.receipt.total = Whole(55)
  /\ GetNow(shown.id) = Ok(Undef)

====
